---- MODULE Spec2Model ----
(***************************************************************************)
(* Model of the retrieval-augmented question-answering pipeline of the     *)
(* repository: the byte-size validation pass (rag/text_splitter.py), the   *)
(* embedding client (rag/embedder.py), the vector store                    *)
(* (rag/vector_store.py) and the pipeline orchestrator                     *)
(* (rag/rag_pipeline.py).                                                  *)
(*                                                                         *)
(* Representation of Python values                                         *)
(*   word    : [id, bytes]   a maximal run of non-whitespace characters;   *)
(*             id names the characters, bytes is len(word.encode('utf-8')) *)
(*   string  : [words, pad]  str.split() of the string, and the number of  *)
(*             whitespace bytes it holds beyond one separator between two  *)
(*             consecutive words (chunks, queries, document texts)         *)
(*   vector  : [dim, x]      a list of dim floats; x stands for its        *)
(*             coordinates (x = 0 is the all-zero vector)                  *)
(***************************************************************************)
EXTENDS Integers, Sequences, FiniteSets, TLC

VARIABLES
    \* ---- embed_text_chunks (rag/embedder.py) ----
    e_pc,          \* position of the calling thread in embed_text_chunks
    e_chunks,      \* argument chunks
    e_batch_size,  \* argument batch_size
    e_max_workers, \* argument max_workers
    e_F,           \* chunks for which every remote call fails
    e_transient,   \* number of transient remote failures so far
    validated_chunks, \* local validated_chunks
    batch_size,    \* local batch_size after the size-based adjustment
    max_workers,   \* local max_workers after the size-based adjustment
    fut,           \* one entry per submitted future (batch)
    e_order,       \* batches in the order as_completed yielded them
    embeddings,    \* local embeddings
    e_calls,       \* number of remote calls made for each validated chunk
    \* ---- FaissVectorStore (rag/vector_store.py) ----
    vector_store,  \* the store object: [dim, index, meta]
    files,         \* what index_path and meta_path hold: [index, meta]
    alive,         \* FALSE once the process has stopped, until a new start
    built_in_sync, \* the constructor left index.ntotal == len(meta)
    last,          \* the last call made and how it ended
    \* ---- RAGPipeline (rag/rag_pipeline.py) ----
    chunks,        \* self.chunks
    is_ingested,   \* self.is_ingested
    rag_cache,     \* rag_cache of api.py: the pipeline cached for each link
    \* ---- a function called on its own ----
    fn_args,       \* the function and its arguments
    fn_result      \* what the call returned or raised, once it has ended

evars == <<e_pc, e_chunks, e_batch_size, e_max_workers, e_F, e_transient,
           validated_chunks, batch_size, max_workers, fut, e_order,
           embeddings, e_calls>>

svars == <<vector_store, files, alive, built_in_sync, last>>

pvars == <<chunks, is_ingested, rag_cache>>

fvars == <<fn_args, fn_result>>

vars == <<evars, svars, pvars, fvars>>

----------------------------------------------------------------------------
(* Bounds of the model *)

MaxBatchSize == 3   \* batch_size argument ranges over 1..MaxBatchSize
MaxWorkers == 2     \* max_workers argument ranges over 1..MaxWorkers
MaxTransient == 3   \* transient remote failures per embed_text_chunks call
MaxStored == 2      \* vectors a store holds at most
MaxAdd == 2         \* vectors one direct add call passes at most
MaxIndexed == 2     \* vectors the index of a pipeline holds at most
MediumSize == 11    \* length of the chunk list of more than 10 chunks
LargeSize == 51     \* length of the chunk list of more than 50 chunks
MaxChunks == 6      \* chunks of a store that is searched
MaxTopK == 3        \* top_k ranges over 1..MaxTopK
MaxWordBytes == 4   \* bytes of the longest word handed to the validation pass
MaxChunkWords == 3  \* words of a chunk handed to the validation pass
MaxListLen == 2     \* chunks of a list handed to the validation pass
MaxBytes == 4       \* max_bytes ranges over 1..MaxBytes
MaxWords == 4       \* words of a text handed to split_text
MaxSize == 3        \* chunk_size ranges over 1..MaxSize, overlap over 0..MaxSize
MaxQuestions == 2   \* questions of a request to a run handler
ScenarioWords == 3000        \* words of the document of the ingestion scenario
ScenarioTargetChunks == 10   \* target_chunks of the ingestion scenario
MaxTextLength == 2100        \* len(text) ranges over 0..MaxTextLength
MaxTargetChunks == 2         \* target_chunks ranges over -1..MaxTargetChunks

(* Program constants *)

max_chunk_bytes == 30000  \* default of embed_text_chunks
max_retries == 3          \* default of _process_batch_with_retry
FallbackDim == 768        \* length of the zero vector of the fallback
ServiceDim == 768         \* length of an embedding-001 vector
SmallLimit == 10          \* len(validated_chunks) <= 10
SmallBatch == 10          \* min(batch_size, 10)
SmallWorkers == 2         \* min(max_workers, 2)
MediumLimit == 50         \* len(validated_chunks) <= 50
MediumBatch == 25         \* min(batch_size, 25)
MediumWorkers == 4        \* min(max_workers, 4)
DefaultDim == 768         \* default embedding_dim of RAGPipeline
MainDim == 1536           \* DIM of the store main.py keeps at the same paths
MinChunkSize == 500       \* optimize_chunk_size: max(500, ...)
MaxChunkSize == 2000      \* optimize_chunk_size: min(..., 2000)
DefaultChunkSize == 1000  \* optimize_chunk_size for target_chunks <= 0
MinOverlap == 100         \* ingest_document: max(100, chunk_size // 5)
OverlapDivisor == 5       \* ingest_document: chunk_size // 5
default_target_chunks == 50  \* default of ingest_document
default_batch_size == 50     \* default of embed_text_chunks
default_max_workers == 4     \* default of embed_text_chunks
default_top_k == 5           \* default of answer_query and of search
default_max_bytes == 30000   \* default of validate_and_split_chunks
MainChunkSize == 1000        \* chunk_size of main.py's rag_pipeline
MainOverlap == 200           \* overlap of main.py's rag_pipeline

----------------------------------------------------------------------------
(* Generic helpers *)

Min(a, b) == IF a <= b THEN a ELSE b

Range(s) == {s[i] : i \in 1..Len(s)}

\* the sequences of a list joined in order, by halves
RECURSIVE Concat(_)
Concat(ss) ==
    IF Len(ss) = 0 THEN <<>>
    ELSE IF Len(ss) = 1 THEN ss[1]
    ELSE Concat(SubSeq(ss, 1, Len(ss) \div 2))
            \o Concat(SubSeq(ss, Len(ss) \div 2 + 1, Len(ss)))

----------------------------------------------------------------------------
(* Strings *)

W(i, b) == [id |-> i, bytes |-> b]

Str(ws, p) == [words |-> ws, pad |-> p]

\* the bytes of the words of a list, summed by halves
RECURSIVE SumBytes(_)
SumBytes(ws) ==
    IF Len(ws) = 0 THEN 0
    ELSE IF Len(ws) = 1 THEN ws[1].bytes
    ELSE SumBytes(SubSeq(ws, 1, Len(ws) \div 2))
            + SumBytes(SubSeq(ws, Len(ws) \div 2 + 1, Len(ws)))

RECURSIVE SumIds(_)
SumIds(ws) == IF Len(ws) = 0 THEN 0 ELSE Head(ws).id + SumIds(Tail(ws))

\* len(s.encode('utf-8'))
ByteLen(s) ==
    SumBytes(s.words) + (IF Len(s.words) > 0 THEN Len(s.words) - 1 ELSE 0) + s.pad

\* ' '.join(words)
JoinWords(ws) == Str(ws, 0)

----------------------------------------------------------------------------
(* rag/text_splitter.py: the byte-size validation pass *)

\* the loop of _split_oversized_chunk over the words not yet consumed
RECURSIVE SplitLoop(_, _, _, _, _)
SplitLoop(words, max_bytes, split_chunks, current_chunk, current_bytes) ==
    IF Len(words) = 0
    THEN IF Len(current_chunk) > 0
         THEN Append(split_chunks, JoinWords(current_chunk))
         ELSE split_chunks
    ELSE LET word == Head(words)
             word_bytes == word.bytes + 1
         IN IF current_bytes + word_bytes > max_bytes /\ Len(current_chunk) > 0
            THEN SplitLoop(Tail(words), max_bytes,
                           Append(split_chunks, JoinWords(current_chunk)),
                           <<word>>, word_bytes)
            ELSE SplitLoop(Tail(words), max_bytes, split_chunks,
                           Append(current_chunk, word),
                           current_bytes + word_bytes)

\* a split that leaves out the last word of the chunk
SplitWithoutLastWord(chunk, max_bytes) ==
    SplitLoop(SubSeq(chunk.words, 1, Len(chunk.words) - 1), max_bytes, <<>>, <<>>, 0)
\* _split_oversized_chunk, lines 181-214
_split_oversized_chunk(chunk, max_bytes) ==
    SplitLoop(chunk.words, max_bytes, <<>>, <<>>, 0)

\* lines 166-177: what the loop appends to validated_chunks for one chunk
ValidatedChunk(chunk, max_bytes) ==
    IF ByteLen(chunk) <= max_bytes
    THEN <<chunk>>
    ELSE _split_oversized_chunk(chunk, max_bytes)

\* validate_and_split_chunks, lines 152-179
validate_and_split_chunks(chunk_list, max_bytes) ==
    Concat([i \in 1..Len(chunk_list) |-> ValidatedChunk(chunk_list[i], max_bytes)])

_validate_chunk_sizes(chunk_list, max_bytes) ==
    validate_and_split_chunks(chunk_list, max_bytes)

----------------------------------------------------------------------------
(* rag/embedder.py: the remote embedding service *)

\* response['embedding'] of a successful genai.embed_content call
embed_content(chunk) == [dim |-> ServiceDim, x |-> 1 + SumIds(chunk.words)]

\* [0.0] * 768
ZeroVector == [dim |-> FallbackDim, x |-> 0]

\* a remote call for chunk may return / may raise
CallMaySucceed(chunk) == chunk \notin e_F
CallMayFail(chunk) == chunk \in e_F \/ e_transient < MaxTransient

CallOutcome(chunk, ok) == IF ok THEN CallMaySucceed(chunk) ELSE CallMayFail(chunk)

AfterCall(chunk, ok) ==
    IF ok \/ chunk \in e_F THEN e_transient ELSE e_transient + 1

----------------------------------------------------------------------------
(* rag/embedder.py: embed_text_chunks and its workers *)

\* batch_size and max_workers after the adjustment of lines 44-52
AdjustedBatchSize(n, bs) ==
    IF n <= SmallLimit THEN Min(bs, SmallBatch)
    ELSE IF n <= MediumLimit THEN Min(bs, MediumBatch)
    ELSE bs

\* a worker count left as the caller gave it
AdjustedMaxWorkersUncapped(n, mw) == mw
AdjustedMaxWorkers(n, mw) ==
    IF n <= SmallLimit THEN Min(mw, SmallWorkers)
    ELSE IF n <= MediumLimit THEN Min(mw, MediumWorkers)
    ELSE mw

\* len(batches) for range(0, n, bs)
NumBatches(n, bs) == (n + bs - 1) \div bs

\* positions (1-based) in validated_chunks of batch k
BatchLo(k, bs) == (k - 1) * bs + 1
BatchHi(k, bs, n) == Min(k * bs, n)

\* batches[k-1] == validated_chunks[i:i + batch_size]
Batch(k) ==
    SubSeq(validated_chunks, BatchLo(k, batch_size),
           BatchHi(k, batch_size, Len(validated_chunks)))

Futures == DOMAIN fut

NewFuture ==
    [phase |-> "queued", attempt |-> 0, pos |-> 1, acc |-> <<>>,
     result |-> <<>>, failed |-> 0, fallback |-> FALSE, failedAtFallback |-> 0]

Running == {k \in Futures : fut[k].phase \in {"direct", "retry", "sequential"}}
Queued == {k \in Futures : fut[k].phase = "queued"}

\* position in validated_chunks of the chunk a worker is about to send
CallIndex(k) == BatchLo(k, batch_size) + fut[k].pos - 1

CountCall(k) == [e_calls EXCEPT ![CallIndex(k)] = @ + 1]

\* lines 32-66: validation, adjustment, batching and submission
EmbedBegin ==
    /\ e_pc = "idle"
    /\ IF Len(e_chunks) = 0
       THEN /\ e_pc' = "returned_empty"
            /\ UNCHANGED <<validated_chunks, batch_size, max_workers, fut, e_calls>>
       ELSE LET v == _validate_chunk_sizes(e_chunks, max_chunk_bytes)
                bs == AdjustedBatchSize(Len(v), e_batch_size)
                mw == AdjustedMaxWorkers(Len(v), e_max_workers)
            IN /\ validated_chunks' = v
               /\ batch_size' = bs
               /\ max_workers' = mw
               /\ fut' = [k \in 1..NumBatches(Len(v), bs) |-> NewFuture]
               /\ e_calls' = [i \in 1..Len(v) |-> 0]
               /\ e_pc' = "collect"
    /\ UNCHANGED <<e_chunks, e_batch_size, e_max_workers, e_F, e_transient,
                   e_order, embeddings>>
    /\ UNCHANGED <<svars, pvars, fvars>>

\* a pool thread takes the oldest queued task: entry of _process_batch
WorkerStart(k) ==
    /\ e_pc = "collect"
    /\ k \in Queued
    /\ \A j \in Queued : k <= j
    /\ Cardinality(Running) < max_workers
    /\ fut' = [fut EXCEPT ![k].phase =
                  IF Len(Batch(k)) = 1 THEN "direct" ELSE "retry"]
    /\ UNCHANGED <<e_pc, e_chunks, e_batch_size, e_max_workers, e_F, e_transient,
                   validated_chunks, batch_size, max_workers, e_order,
                   embeddings, e_calls>>
    /\ UNCHANGED <<svars, pvars, fvars>>

\* a retry loop that gives up one attempt early
LastAttemptSkipped(attempt) == attempt = max_retries - 2
\* a retry loop that makes one attempt more
LastAttemptLate(attempt) == attempt = max_retries
\* line 128: attempt == max_retries - 1 (attempt counts from 0)
LastAttempt(attempt) == attempt = max_retries - 1

\* a fallback that appends nothing for a chunk whose call failed
SequentialAppendDropped(acc, chunk, ok) ==
    IF ok THEN Append(acc, embed_content(chunk)) ELSE acc
\* lines 139-149: the vector _process_batch_sequential appends for one chunk
SequentialAppend(acc, chunk, ok) ==
    Append(acc, IF ok THEN embed_content(chunk) ELSE ZeroVector)

\* _process_batch, lines 98-104 and 108-110: the direct call of a one-chunk batch
DirectCall(k, ok) ==
    /\ e_pc = "collect"
    /\ k \in Futures
    /\ fut[k].phase = "direct"
    /\ LET chunk == Batch(k)[1]
       IN /\ CallOutcome(chunk, ok)
          /\ e_transient' = AfterCall(chunk, ok)
          /\ fut' = [fut EXCEPT ![k] =
                IF ok
                THEN [@ EXCEPT !.phase = "done", !.result = <<embed_content(chunk)>>]
                ELSE [@ EXCEPT !.phase = "sequential", !.pos = 1, !.acc = <<>>,
                               !.failed = @ + 1, !.fallback = TRUE,
                               !.failedAtFallback = fut[k].failed + 1]]
    /\ e_calls' = CountCall(k)
    /\ UNCHANGED <<e_pc, e_chunks, e_batch_size, e_max_workers, e_F,
                   validated_chunks, batch_size, max_workers, e_order, embeddings>>
    /\ UNCHANGED <<svars, pvars, fvars>>

\* _process_batch_with_retry: one remote call of the current attempt
RetryCall(k, ok) ==
    /\ e_pc = "collect"
    /\ k \in Futures
    /\ fut[k].phase = "retry"
    /\ LET f == fut[k]
           chunk == Batch(k)[f.pos]
       IN /\ CallOutcome(chunk, ok)
          /\ e_transient' = AfterCall(chunk, ok)
          /\ fut' = [fut EXCEPT ![k] =
                IF ok
                THEN IF f.pos = Len(Batch(k))
                     THEN [f EXCEPT !.phase = "done",
                                    !.result = Append(f.acc, embed_content(chunk))]
                     ELSE [f EXCEPT !.pos = f.pos + 1,
                                    !.acc = Append(f.acc, embed_content(chunk))]
                ELSE IF LastAttempt(f.attempt)
                     THEN [f EXCEPT !.phase = "sequential", !.pos = 1, !.acc = <<>>,
                                    !.failed = f.failed + 1, !.fallback = TRUE,
                                    !.failedAtFallback = f.failed + 1]
                     ELSE [f EXCEPT !.attempt = f.attempt + 1, !.pos = 1,
                                    !.acc = <<>>, !.failed = f.failed + 1]]
    /\ e_calls' = CountCall(k)
    /\ UNCHANGED <<e_pc, e_chunks, e_batch_size, e_max_workers, e_F,
                   validated_chunks, batch_size, max_workers, e_order, embeddings>>
    /\ UNCHANGED <<svars, pvars, fvars>>

\* _process_batch_sequential: one iteration of its loop
SequentialCall(k, ok) ==
    /\ e_pc = "collect"
    /\ k \in Futures
    /\ fut[k].phase = "sequential"
    /\ LET f == fut[k]
           chunk == Batch(k)[f.pos]
           acc == SequentialAppend(f.acc, chunk, ok)
       IN /\ CallOutcome(chunk, ok)
          /\ e_transient' = AfterCall(chunk, ok)
          /\ fut' = [fut EXCEPT ![k] =
                IF f.pos = Len(Batch(k))
                THEN [f EXCEPT !.phase = "done", !.result = acc]
                ELSE [f EXCEPT !.pos = f.pos + 1, !.acc = acc]]
    /\ e_calls' = CountCall(k)
    /\ UNCHANGED <<e_pc, e_chunks, e_batch_size, e_max_workers, e_F,
                   validated_chunks, batch_size, max_workers, e_order, embeddings>>
    /\ UNCHANGED <<svars, pvars, fvars>>

\* lines 70-76: as_completed yields a finished future; its result is appended.
\* _process_batch catches every Exception, so future.result() returns.
Collect(k) ==
    /\ e_pc = "collect"
    /\ k \in Futures
    /\ fut[k].phase = "done"
    /\ k \notin Range(e_order)
    /\ embeddings' = embeddings \o fut[k].result
    /\ e_order' = Append(e_order, k)
    /\ UNCHANGED <<e_pc, e_chunks, e_batch_size, e_max_workers, e_F, e_transient,
                   validated_chunks, batch_size, max_workers, fut, e_calls>>
    /\ UNCHANGED <<svars, pvars, fvars>>

\* lines 85-90: the division by len(embeddings) and the return
EmbedReturn ==
    /\ e_pc = "collect"
    /\ Range(e_order) = Futures
    /\ e_pc' = IF Len(embeddings) = 0 THEN "raised" ELSE "returned"
    /\ UNCHANGED <<e_chunks, e_batch_size, e_max_workers, e_F, e_transient,
                   validated_chunks, batch_size, max_workers, fut, e_order,
                   embeddings, e_calls>>
    /\ UNCHANGED <<svars, pvars, fvars>>

----------------------------------------------------------------------------
(* Inputs of the embedding client *)

SmallChunk(i) == Str(<<W(i, 5)>>, 0)

\* one chunk of two words of 20000 bytes: 40001 bytes
OversizedChunk == Str(<<W(7, 20000), W(8, 20000)>>, 0)

\* one chunk of 30001 blanks
BlankChunk == Str(<<>>, 30001)

EmbedInputs ==
    { <<>>,
      <<SmallChunk(1)>>,
      <<SmallChunk(1), SmallChunk(2)>>,
      <<SmallChunk(1), SmallChunk(2), SmallChunk(3)>>,
      <<SmallChunk(1), SmallChunk(2), SmallChunk(3), SmallChunk(4)>>,
      <<OversizedChunk>>,
      <<SmallChunk(1), OversizedChunk>>,
      <<BlankChunk>> }

\* the variables of the store and of the pipeline, where neither is used
StoreUnused ==
    /\ vector_store = <<>> /\ files = <<>> /\ alive = FALSE
    /\ built_in_sync = TRUE /\ last = <<>>
    /\ chunks = <<>> /\ is_ingested = FALSE /\ rag_cache = <<>>

\* no function is called on its own
NoFn == [fn |-> "none"]
FnIdle == fn_args = NoFn /\ fn_result = NoFn

EmbedNotStarted ==
    /\ e_pc = "idle"
    /\ validated_chunks = <<>>
    /\ batch_size = 0
    /\ max_workers = 0
    /\ fut = <<>>
    /\ e_order = <<>>
    /\ embeddings = <<>>
    /\ e_calls = <<>>

EmbedIdle == EmbedNotStarted /\ e_transient = 0

\* n equal chunks
Repeated(n) == [i \in 1..n |-> SmallChunk(1)]

\* inputs of more than 10 and of more than 50 chunks
LargeInputs == {Repeated(MediumSize), Repeated(LargeSize)}

InitEmbed ==
    /\ \/ /\ e_chunks \in EmbedInputs
          /\ e_batch_size \in (1..MaxBatchSize) \cup {default_batch_size}
          /\ e_max_workers \in (1..MaxWorkers) \cup {default_max_workers}
          /\ e_transient = 0
       \/ /\ e_chunks \in LargeInputs
          /\ e_batch_size = default_batch_size
          /\ e_max_workers \in {default_max_workers, default_max_workers + 1}
          /\ e_transient = MaxTransient
    /\ e_F \in SUBSET Range(_validate_chunk_sizes(e_chunks, max_chunk_bytes))
    /\ EmbedNotStarted
    /\ FnIdle
    /\ StoreUnused

NextEmbed ==
    \/ EmbedBegin
    \/ \E k \in Futures : WorkerStart(k)
    \/ \E k \in Futures, ok \in BOOLEAN : DirectCall(k, ok)
    \/ \E k \in Futures, ok \in BOOLEAN : RetryCall(k, ok)
    \/ \E k \in Futures, ok \in BOOLEAN : SequentialCall(k, ok)
    \/ \E k \in Futures : Collect(k)
    \/ EmbedReturn

SpecEmbed == InitEmbed /\ [][NextEmbed]_vars

\* the calls on lists of up to four chunks, with the scheduling of the code:
\* the main thread runs, the pool runs every submitted task, and every remote
\* call returns or raises
InitEmbedLive == InitEmbed /\ e_chunks \in EmbedInputs

SpecEmbedLive == InitEmbedLive /\ [][NextEmbed]_vars /\ WF_vars(NextEmbed)

----------------------------------------------------------------------------
(* Properties of the embedding client *)

Returned == e_pc = "returned"

\* the batch holding position i of validated_chunks
BatchOf(i) == ((i - 1) \div batch_size) + 1

\* the vector the worker of its batch produced for validated_chunks[i]
Produced(i) == fut[BatchOf(i)].result[i - BatchLo(BatchOf(i), batch_size) + 1]

\* C1: when embed_text_chunks returns, vectors[i] is the vector produced for
\* validated_chunks[i], for every index i, whatever the completion order of
\* the batches was.
C1_InputOrder ==
    Returned =>
        /\ Len(embeddings) = Len(validated_chunks)
        /\ \A i \in 1..Len(validated_chunks) : embeddings[i] = Produced(i)

NoOversizedInput ==
    \A i \in 1..Len(e_chunks) : ByteLen(e_chunks[i]) <= max_chunk_bytes

C9_ZeroExactlyAtF ==
    (Returned /\ e_transient = 0) =>
        \A i \in 1..Len(validated_chunks) :
            /\ i <= Len(embeddings)
            /\ embeddings[i] = IF validated_chunks[i] \in e_F
                               THEN ZeroVector
                               ELSE embed_content(validated_chunks[i])

\* the effective values in the words of the embedder's contract
EffectiveWorkers ==
    IF Len(validated_chunks) <= 10 THEN Min(e_max_workers, 2)
    ELSE IF Len(validated_chunks) <= 50 THEN Min(e_max_workers, 4)
    ELSE e_max_workers

EffectiveBatchSize ==
    IF Len(validated_chunks) <= 10 THEN Min(e_batch_size, 10)
    ELSE IF Len(validated_chunks) <= 50 THEN Min(e_batch_size, 25)
    ELSE e_batch_size

\* C11: once the batches are submitted, the number of batches being
\* processed at the same time never exceeds the effective worker bound
\* (min(max_workers, 2) with batch size min(batch_size, 10) for at most 10
\* validated chunks, min(max_workers, 4) and min(batch_size, 25) for at most
\* 50, the caller's values otherwise), and the batches concatenated in order
\* are the validated chunk list.
C11_WorkerBound ==
    (e_pc \in {"collect", "returned", "raised"}) =>
        /\ max_workers = EffectiveWorkers
        /\ batch_size = EffectiveBatchSize
        /\ Cardinality(Running) <= EffectiveWorkers
        /\ \A k \in Futures : Len(Batch(k)) <= EffectiveBatchSize
        /\ Concat([k \in Futures |-> Batch(k)]) = validated_chunks

\* C11 witness: the caller asked for more workers than the effective bound,
\* every worker of the pool is busy and a batch is still waiting.
C11_Witness ==
    /\ e_pc = "collect"
    /\ EffectiveWorkers < e_max_workers
    /\ Cardinality(Running) = EffectiveWorkers
    /\ Queued # {}

\* C10 as stated: for every batch of any size, the sequential fallback starts
\* only after 3 failed attempts for that batch.
C10_ThreeAttemptsAnyBatch ==
    \A k \in Futures :
        (fut[k].fallback \/ fut[k].phase = "sequential") =>
            fut[k].failedAtFallback = max_retries

\* failed attempts a batch needs before its fallback starts
AttemptsBeforeFallback(k) == IF Len(Batch(k)) = 1 THEN 1 ELSE max_retries

\* C10 amended: the sequential fallback of a batch of two or more chunks
\* starts only after 3 failed attempts for that batch, the fallback of a
\* one-chunk batch after its single direct call failed; a batch with fewer
\* failed attempts never enters the fallback.
C10_FallbackAfterAttempts ==
    \A k \in Futures :
        /\ (fut[k].fallback \/ fut[k].phase = "sequential") =>
               /\ fut[k].fallback
               /\ fut[k].failedAtFallback = AttemptsBeforeFallback(k)
               /\ fut[k].failed = AttemptsBeforeFallback(k)
        /\ fut[k].failed < AttemptsBeforeFallback(k) =>
               ~fut[k].fallback /\ fut[k].phase # "sequential"

\* C10 witness: a batch of two chunks is in its fallback, and another batch of
\* two or more chunks finished after a failed attempt without any fallback.
C10_Witness ==
    /\ \E k \in Futures :
          Len(Batch(k)) >= 2 /\ fut[k].phase = "sequential" /\ fut[k].pos = 2
    /\ \E k \in Futures :
          /\ Len(Batch(k)) >= 2
          /\ fut[k].phase = "done" /\ fut[k].failed = 2 /\ ~fut[k].fallback

----------------------------------------------------------------------------
(* rag/vector_store.py: FaissVectorStore over its two files *)

\* faiss.IndexFlatL2(dim)
IndexFlatL2(d) == [d |-> d, vecs |-> <<>>]

ntotal(index) == Len(index.vecs)

NoIndexFile == [exists |-> FALSE, d |-> 0, vecs |-> <<>>]
NoMetaFile == [exists |-> FALSE, items |-> <<>>]
NoFiles == [index |-> NoIndexFile, meta |-> NoMetaFile]

IndexFileOf(index) == [exists |-> TRUE, d |-> index.d, vecs |-> index.vecs]
MetaFileOf(meta) == [exists |-> TRUE, items |-> meta]

\* how far a save gets: it completes, write_index raises, the write of the
\* metadata file raises after write_index returned, or the process stops
\* between the two writes
SaveOutcomes == {"ok", "error_index", "error_meta", "stop_between"}

\* save, lines 52-55: the index file is written first, then the metadata file
save(vs, fs, o) ==
    [vs |-> vs,
     fs |-> [index |-> IF o = "error_index" THEN fs.index ELSE IndexFileOf(vs.index),
             meta |-> IF o = "ok" THEN MetaFileOf(vs.meta) ELSE fs.meta],
     raised |-> o # "ok",
     stopped |-> o = "stop_between",
     mutated |-> FALSE]

\* __init__, lines 7-17: opening a missing metadata file raises
ConstructRaises(fs) == fs.index.exists /\ ~fs.meta.exists

FaissVectorStore(d, fs) ==
    IF fs.index.exists
    THEN [dim |-> d, index |-> [d |-> fs.index.d, vecs |-> fs.index.vecs],
          meta |-> fs.meta.items]
    ELSE [dim |-> d, index |-> IndexFlatL2(d), meta |-> <<>>]

\* clear, lines 19-26
clear(vs, fs, o) ==
    LET cleared == [vs EXCEPT !.index = IndexFlatL2(vs.dim), !.meta = <<>>]
    IN [save(cleared, fs, o) EXCEPT !.mutated = TRUE]

\* lines 41-42: np.array(...).astype and index.add raise for no vectors, for
\* vectors of unequal lengths and for a length other than the index's
AddRejects(vs, embs) ==
    \/ Len(embs) = 0
    \/ \E i \in 1..Len(embs) : embs[i].dim # vs.index.d

\* an add that extends the metadata list before the vectors are accepted
addMetaFirst(vs, fs, embs, metadatas, o) ==
    IF AddRejects(vs, embs)
    THEN [vs |-> [vs EXCEPT !.meta = vs.meta \o metadatas], fs |-> fs,
          raised |-> TRUE, stopped |-> FALSE, mutated |-> TRUE]
    ELSE LET added == [vs EXCEPT !.index.vecs = vs.index.vecs \o embs,
                                 !.meta = vs.meta \o metadatas]
         IN [save(added, fs, o) EXCEPT !.mutated = TRUE]
\* add, lines 40-44
add(vs, fs, embs, metadatas, o) ==
    IF AddRejects(vs, embs)
    THEN [vs |-> vs, fs |-> fs, raised |-> TRUE, stopped |-> FALSE,
          mutated |-> FALSE]
    ELSE LET added == [vs EXCEPT !.index.vecs = vs.index.vecs \o embs,
                                 !.meta = vs.meta \o metadatas]
         IN [save(added, fs, o) EXCEPT !.mutated = TRUE]

InSync(vs) == ntotal(vs.index) = Len(vs.meta)

----------------------------------------------------------------------------
(* A store used directly through its methods *)

StoreDims == {DefaultDim, MainDim}

\* the (vector, metadata) pairs direct add calls are made of
StoreEntries ==
    { [v |-> [dim |-> DefaultDim, x |-> 1], m |-> SmallChunk(1)],
      [v |-> [dim |-> DefaultDim, x |-> 3], m |-> SmallChunk(2)],
      [v |-> [dim |-> MainDim, x |-> 2], m |-> SmallChunk(3)] }

SeqsUpTo(S, n) == UNION {[1..k -> S] : k \in 0..n}

VectorsOf(entries) == [i \in 1..Len(entries) |-> entries[i].v]
MetadatasOf(entries) == [i \in 1..Len(entries) |-> entries[i].m]

\* a record of the last call: the method, whether it raised, whether it changed
\* the index or the metadata list in memory, where it ended, and for the
\* pipeline's methods the clear_existing argument, the readiness flag before
\* the call and whether retrieval and generation were called
NoCall ==
    [op |-> "none", raised |-> FALSE, mutated |-> FALSE, outcome |-> "ok",
     clear_existing |-> FALSE, ready_before |-> FALSE,
     retrieved |-> FALSE, generated |-> FALSE]

Called(name, r, o) ==
    [NoCall EXCEPT !.op = name, !.raised = r.raised, !.mutated = r.mutated,
                   !.outcome = o]

\* a process starts and constructs a store over the files as they are
StoreNew(d) ==
    /\ ~ConstructRaises(files)
    /\ vector_store' = FaissVectorStore(d, files)
    /\ built_in_sync' = InSync(FaissVectorStore(d, files))
    /\ alive' = TRUE
    /\ last' = [NoCall EXCEPT !.op = "new"]
    /\ UNCHANGED <<files, evars, fvars, pvars>>

StoreNewRaises(d) ==
    /\ ConstructRaises(files)
    /\ ~alive
    /\ last' = [NoCall EXCEPT !.op = "new", !.raised = TRUE]
    /\ UNCHANGED <<vector_store, files, alive, built_in_sync, evars, fvars, pvars>>

\* the state a finished or interrupted method leaves
StoreAfter(name, r, o) ==
    /\ vector_store' = r.vs
    /\ files' = r.fs
    /\ alive' = ~r.stopped
    /\ last' = Called(name, r, o)
    /\ UNCHANGED <<built_in_sync, evars, fvars, pvars>>

StoreAdd(embs, metadatas, o) ==
    /\ alive
    /\ Len(embs) = Len(metadatas)
    /\ ntotal(vector_store.index) + Len(embs) <= MaxStored
    /\ Len(vector_store.meta) + Len(metadatas) <= MaxStored
    /\ StoreAfter("add", add(vector_store, files, embs, metadatas, o), o)

StoreClear(o) ==
    /\ alive
    /\ StoreAfter("clear", clear(vector_store, files, o), o)

StoreSave(o) ==
    /\ alive
    /\ StoreAfter("save", save(vector_store, files, o), o)

InitStore ==
    /\ e_chunks = <<>> /\ e_batch_size = 1 /\ e_max_workers = 1 /\ e_F = {}
    /\ EmbedIdle
    /\ FnIdle
    /\ files = NoFiles
    /\ \E d \in StoreDims : vector_store = FaissVectorStore(d, NoFiles)
    /\ alive = TRUE
    /\ built_in_sync = TRUE
    /\ last = NoCall
    /\ chunks = <<>> /\ is_ingested = FALSE /\ rag_cache = <<>>

NextStore ==
    \/ \E d \in StoreDims : StoreNew(d)
    \/ \E d \in StoreDims : StoreNewRaises(d)
    \/ \E entries \in SeqsUpTo(StoreEntries, MaxAdd), o \in SaveOutcomes :
          StoreAdd(VectorsOf(entries), MetadatasOf(entries), o)
    \/ \E o \in SaveOutcomes : StoreClear(o)
    \/ \E o \in SaveOutcomes : StoreSave(o)

SpecStore == InitStore /\ [][NextStore]_vars

\* C5: after any sequence of add calls (with equally long vector and metadata
\* lists) and clear calls on a store that was constructed with as many vectors
\* as metadata entries, add calls that fail included, the number of vectors in
\* the index equals the length of the metadata list.
C5_CountEqualsMetadata ==
    (alive /\ built_in_sync) => InSync(vector_store)

\* an add call was rejected by a store that already held a vector
C5_Witness ==
    /\ alive /\ built_in_sync
    /\ last.op = "add" /\ last.raised /\ ~last.mutated
    /\ ntotal(vector_store.index) >= 1

\* C6: once the process has stopped during add, clear or save, the two files
\* hold the same number of entries: a store can be constructed from them and
\* has as many vectors as metadata entries.
C6_CrashAtomic ==
    ~alive => /\ ~ConstructRaises(files)
              /\ InSync(FaissVectorStore(DefaultDim, files))

----------------------------------------------------------------------------
(* rag/vector_store.py: search *)

\* squared L2 distance of two vectors of equal length
Distance(a, b) == (a.x - b.x) * (a.x - b.x)

\* the positions (0-based) of the stored vectors, nearest first
RECURSIVE Nearest(_, _, _)
Nearest(vecs, q, left) ==
    IF left = {} THEN <<>>
    ELSE LET best == CHOOSE i \in left : \A j \in left :
                        \/ Distance(vecs[i + 1], q) < Distance(vecs[j + 1], q)
                        \/ /\ Distance(vecs[i + 1], q) = Distance(vecs[j + 1], q)
                           /\ i <= j
         IN <<best>> \o Nearest(vecs, q, left \ {best})

\* I[0] of index.search(arr, top_k): top_k labels, -1 where no vector is left
Labels(index, q, top_k) ==
    LET ranked == Nearest(index.vecs, q, 0..(ntotal(index) - 1))
    IN [j \in 1..top_k |-> IF j <= Len(ranked) THEN ranked[j] ELSE -1]

\* self.meta[i] raises IndexError
MetaIndexError(meta, i) == IF i >= 0 THEN i >= Len(meta) ELSE -i > Len(meta)

\* self.meta[i] with Python's negative indices
MetaAt(meta, i) == IF i >= 0 THEN meta[i + 1] ELSE meta[Len(meta) + i + 1]

\* search, lines 46-50
search(vs, query_embedding, top_k) ==
    IF query_embedding.dim # vs.index.d
    THEN [raised |-> TRUE, results |-> <<>>]
    ELSE LET I == Labels(vs.index, query_embedding, top_k)
         IN IF \E j \in 1..top_k : MetaIndexError(vs.meta, I[j])
            THEN [raised |-> TRUE, results |-> <<>>]
            ELSE [raised |-> FALSE,
                  results |-> [j \in 1..top_k |-> MetaAt(vs.meta, I[j])]]

----------------------------------------------------------------------------
(* rag/text_splitter.py: split_text and its strategies *)

\* a test that takes every text to hold a word
BlankNever(text) == FALSE
\* not text or not text.strip()
Blank(text) == Len(text.words) = 0

\* len(text), every character taken as one byte
CharLen(text) == ByteLen(text)

Max(a, b) == IF a >= b THEN a ELSE b

\* a chunk size that is not clamped
OptimizeUnclamped(text_length, target_chunks) ==
    IF target_chunks <= 0 THEN DefaultChunkSize
    ELSE text_length \div target_chunks

\* optimize_chunk_size, lines 135-150
optimize_chunk_size(text_length, target_chunks) ==
    IF target_chunks <= 0 THEN DefaultChunkSize
    ELSE Min(Max(MinChunkSize, text_length \div target_chunks), MaxChunkSize)

\* the windows of _split_by_words from word i (0-based) on, step > 0
RECURSIVE WordWindows(_, _, _, _)
WordWindows(words, i, chunk_size, step) ==
    IF i >= Len(words) THEN <<>>
    ELSE <<JoinWords(SubSeq(words, i + 1, Min(i + chunk_size, Len(words))))>>
         \o WordWindows(words, i + step, chunk_size, step)

\* _split_by_words, lines 31-45: range() raises for a step of 0 and is empty
\* for a negative step
_split_by_words(text, chunk_size, overlap) ==
    IF Len(text.words) <= chunk_size
    THEN [raised |-> FALSE, chunks |-> <<text>>]
    ELSE IF chunk_size - overlap = 0
    THEN [raised |-> TRUE, chunks |-> <<>>]
    ELSE IF chunk_size - overlap < 0
    THEN [raised |-> FALSE, chunks |-> <<>>]
    ELSE [raised |-> FALSE,
          chunks |-> WordWindows(text.words, 0, chunk_size, chunk_size - overlap)]

\* A text whose sentence ends and paragraph breaks are known: stops holds
\* the positions of the words that end in '.', '!' or '?' and are followed by
\* whitespace, breaks the positions of the words followed by '\n\n' (one
\* byte more than a single separator). A string without these fields has
\* neither.
Text(ws, stops, breaks) ==
    [words |-> ws, pad |-> Cardinality(breaks), stops |-> stops, breaks |-> breaks]

Stops(text) == IF "stops" \in DOMAIN text THEN text.stops ELSE {}
Breaks(text) == IF "breaks" \in DOMAIN text THEN text.breaks ELSE {}

\* the ranges lo..hi into which the cuts divide the positions lo..n
RECURSIVE Segments(_, _, _)
Segments(n, cuts, lo) ==
    IF lo > n THEN <<>>
    ELSE LET hi == CHOOSE h \in lo..n :
                      /\ h = n \/ h \in cuts
                      /\ \A g \in lo..(h - 1) : g \notin cuts
         IN <<[lo |-> lo, hi |-> hi]>> \o Segments(n, cuts, hi + 1)

\* the substring of text that holds the words lo..hi
Part(text, seg) ==
    Str(SubSeq(text.words, seg.lo, seg.hi),
        Cardinality({i \in seg.lo..(seg.hi - 1) : i \in Breaks(text)}))

\* re.split(r'(?<=[.!?])\s+', text)
SentencesOf(text) ==
    LET segs == Segments(Len(text.words), Stops(text), 1)
    IN [k \in 1..Len(segs) |-> Part(text, segs[k])]

\* the stripped, non-empty items of text.split('\n\n')
ParagraphsOf(text) ==
    LET segs == Segments(Len(text.words), Breaks(text), 1)
    IN [k \in 1..Len(segs) |-> Part(text, segs[k])]

RECURSIVE SumPads(_)
SumPads(strs) == IF Len(strs) = 0 THEN 0 ELSE Head(strs).pad + SumPads(Tail(strs))

\* sep.join(strs), for a separator of 1 + extra bytes
JoinStrings(strs, extra) ==
    Str(Concat([k \in 1..Len(strs) |-> strs[k].words]),
        SumPads(strs) + extra * (Len(strs) - 1))

\* lines 68-75: the last sentences of current_chunk, one counted per sentence
SentenceOverlap(current_chunk, overlap) ==
    LET n == Max(0, Min(overlap, Len(current_chunk)))
    IN SubSeq(current_chunk, Len(current_chunk) - n + 1, Len(current_chunk))

\* the loop of _split_by_sentences, lines 58-81
RECURSIVE SentenceLoop(_, _, _, _, _, _)
SentenceLoop(sentences, chunk_size, overlap, out, current_chunk, current_size) ==
    IF Len(sentences) = 0
    THEN IF Len(current_chunk) > 0
         THEN Append(out, JoinStrings(current_chunk, 0))
         ELSE out
    ELSE LET sentence == Head(sentences)
             sentence_size == Len(sentence.words)
             full == current_size + sentence_size > chunk_size
                        /\ Len(current_chunk) > 0
             overlap_words == SentenceOverlap(current_chunk, overlap)
         IN IF full
            THEN SentenceLoop(Tail(sentences), chunk_size, overlap,
                              Append(out, JoinStrings(current_chunk, 0)),
                              Append(overlap_words, sentence),
                              Len(overlap_words) + sentence_size)
            ELSE SentenceLoop(Tail(sentences), chunk_size, overlap, out,
                              Append(current_chunk, sentence),
                              current_size + sentence_size)

\* _split_by_sentences, lines 47-87
_split_by_sentences(text, chunk_size, overlap) ==
    [raised |-> FALSE,
     chunks |-> SentenceLoop(SentencesOf(text), chunk_size, overlap, <<>>, <<>>, 0)]

\* lines 113-121: the last paragraphs of current_chunk whose words fit overlap
RECURSIVE ParagraphOverlap(_, _, _)
ParagraphOverlap(current_chunk, overlap, overlap_size) ==
    IF Len(current_chunk) = 0 THEN <<>>
    ELSE LET para == current_chunk[Len(current_chunk)]
         IN IF overlap_size + Len(para.words) <= overlap
            THEN Append(ParagraphOverlap(
                            SubSeq(current_chunk, 1, Len(current_chunk) - 1),
                            overlap, overlap_size + Len(para.words)),
                        para)
            ELSE <<>>

RECURSIVE CountWords(_)
CountWords(strs) ==
    IF Len(strs) = 0 THEN 0 ELSE Len(Head(strs).words) + CountWords(Tail(strs))

\* the loop of _split_by_paragraphs, lines 99-127
RECURSIVE ParagraphLoop(_, _, _, _, _, _)
ParagraphLoop(paragraphs, chunk_size, overlap, out, current_chunk, current_size) ==
    IF Len(paragraphs) = 0
    THEN IF Len(current_chunk) > 0
         THEN Append(out, JoinStrings(current_chunk, 1))
         ELSE out
    ELSE LET paragraph == Head(paragraphs)
             paragraph_size == Len(paragraph.words)
             full == current_size + paragraph_size > chunk_size
                        /\ Len(current_chunk) > 0
             overlap_paragraphs == ParagraphOverlap(current_chunk, overlap, 0)
         IN IF full
            THEN ParagraphLoop(Tail(paragraphs), chunk_size, overlap,
                               Append(out, JoinStrings(current_chunk, 1)),
                               Append(overlap_paragraphs, paragraph),
                               CountWords(overlap_paragraphs) + paragraph_size)
            ELSE ParagraphLoop(Tail(paragraphs), chunk_size, overlap, out,
                               Append(current_chunk, paragraph),
                               current_size + paragraph_size)

\* _split_by_paragraphs, lines 89-133
_split_by_paragraphs(text, chunk_size, overlap) ==
    [raised |-> FALSE,
     chunks |-> ParagraphLoop(ParagraphsOf(text), chunk_size, overlap, <<>>, <<>>, 0)]

\* split_text, lines 4-29
split_text(text, chunk_size, overlap, strategy) ==
    IF Blank(text) THEN [raised |-> FALSE, chunks |-> <<>>]
    ELSE IF strategy = "words" THEN _split_by_words(text, chunk_size, overlap)
    ELSE IF strategy = "sentences" THEN _split_by_sentences(text, chunk_size, overlap)
    ELSE IF strategy = "paragraphs" THEN _split_by_paragraphs(text, chunk_size, overlap)
    ELSE [raised |-> TRUE, chunks |-> <<>>]

----------------------------------------------------------------------------
(* rag/embedder.py: what a call of embed_text_chunks returns, given the order *)
(* in which as_completed yielded the batches and the positions whose chunk    *)
(* ended with the zero vector of the sequential fallback                      *)

BatchOrders(n) == {o \in [1..n -> 1..n] : \A i, j \in 1..n : o[i] = o[j] => i = j}

EmbeddingsInOrder(validated, bs, order, Z) ==
    LET vec(i) == IF i \in Z THEN ZeroVector ELSE embed_content(validated[i])
        lo(k) == BatchLo(k, bs)
        hi(k) == BatchHi(k, bs, Len(validated))
        result(k) == [j \in 1..(hi(k) - lo(k) + 1) |-> vec(lo(k) + j - 1)]
    IN Concat([j \in 1..Len(order) |-> result(order[j])])

\* the validated chunks and the batch count of a call
ValidatedOf(chunk_list) == _validate_chunk_sizes(chunk_list, max_chunk_bytes)

BatchCountOf(chunk_list, bs) ==
    LET n == Len(ValidatedOf(chunk_list))
    IN NumBatches(n, AdjustedBatchSize(n, bs))

embed_text_chunks(chunk_list, bs, order, Z) ==
    LET validated == ValidatedOf(chunk_list)
        n == Len(validated)
    IN IF Len(chunk_list) = 0
       THEN [raised |-> FALSE, embeddings |-> <<>>, validated |-> chunk_list]
       ELSE IF n = 0
       THEN [raised |-> TRUE, embeddings |-> <<>>, validated |-> <<>>]
       ELSE [raised |-> FALSE,
             embeddings |-> EmbeddingsInOrder(validated, AdjustedBatchSize(n, bs),
                                              order, Z),
             validated |-> validated]

\* the fallback positions of a finished call of the step-wise model
ZeroPositions == {i \in 1..Len(validated_chunks) : Produced(i) = ZeroVector}

\* the step-wise model returns what embed_text_chunks above returns
EmbedSummaryAgrees ==
    Returned =>
        /\ e_order \in BatchOrders(BatchCountOf(e_chunks, e_batch_size))
        /\ LET r == embed_text_chunks(e_chunks, e_batch_size, e_order, ZeroPositions)
           IN ~r.raised /\ r.embeddings = embeddings /\ r.validated = validated_chunks

----------------------------------------------------------------------------
(* rag/document_loader.py and the documents of the model *)

Links == {"one.pdf", "two.pdf", "blank.pdf", "notes.txt"}

Supported(link) == link # "notes.txt"

\* the text PdfReader extracts: one short word, two words of 20000 bytes, or
\* three blanks
TextOf(link) ==
    IF link = "one.pdf" THEN Str(<<W(1, 5)>>, 0)
    ELSE IF link = "two.pdf" THEN Str(<<W(7, 20000), W(8, 20000)>>, 0)
    ELSE Str(<<>>, 3)

\* load_document raises when the download fails or the extension is unknown
load_document(link, fetched) ==
    IF fetched /\ Supported(link)
    THEN [raised |-> FALSE, text |-> TextOf(link)]
    ELSE [raised |-> TRUE, text |-> Str(<<>>, 0)]

Strategies == {"words", "lines"}

----------------------------------------------------------------------------
(* rag/rag_pipeline.py: RAGPipeline *)

\* the string "test" of the verification probe
test_query == Str(<<W(99, 4)>>, 0)

\* the one vector embed_text_chunks returns for a single short string
EmbedOne(text, ok) == IF ok THEN embed_content(text) ELSE ZeroVector

\* a verification that also raises when the embedding of its probe failed
VerifyRaisesOnFailedProbe(vs, chunk_list, probe_ok) ==
    \/ Len(chunk_list) = 0
    \/ ntotal(vs.index) = 0
    \/ ~probe_ok
    \/ LET r == search(vs, EmbedOne(test_query, probe_ok), 1)
       IN r.raised \/ Len(r.results) = 0

\* _verify_ingestion raises, lines 154-205
VerifyRaises(vs, chunk_list, probe_ok) ==
    \/ Len(chunk_list) = 0
    \/ ntotal(vs.index) = 0
    \/ LET r == search(vs, EmbedOne(test_query, probe_ok), 1)
       IN r.raised \/ Len(r.results) = 0

Ended(vs, fs, chunk_list, flag, where, mutated, stopped) ==
    [vs |-> vs, fs |-> fs, chunks |-> chunk_list, is_ingested |-> flag,
     outcome |-> where, mutated |-> mutated, stopped |-> stopped]

\* overlap=max(100, optimal_chunk_size // 5)
OverlapFor(chunk_size) == Max(MinOverlap, chunk_size \div OverlapDivisor)

\* the store when line 34 skips the clear
NotCleared(vs, fs) ==
    [vs |-> vs, fs |-> fs, raised |-> FALSE, stopped |-> FALSE, mutated |-> FALSE]

\* where ingest_document ends and what it leaves for a pipeline that held
\* old_chunks and the flag old_flag, given what its steps returned: c the
\* clear of line 36 (or its skip), doc load_document, sp split_text, em
\* embed_text_chunks, a the add of line 98
IngestEndOf(old_chunks, old_flag, c, doc, sp, em, a, clear_existing, probe_ok) ==
    LET flag == IF clear_existing THEN FALSE ELSE old_flag
    IN IF c.raised
       THEN Ended(c.vs, c.fs, old_chunks, old_flag, "clear", c.mutated, c.stopped)
       ELSE IF doc.raised
       THEN Ended(c.vs, c.fs, old_chunks, flag, "load", c.mutated, FALSE)
       ELSE IF Blank(doc.text)
       THEN Ended(c.vs, c.fs, old_chunks, flag, "empty", c.mutated, FALSE)
       ELSE IF sp.raised
       THEN Ended(c.vs, c.fs, old_chunks, flag, "split", c.mutated, FALSE)
       ELSE IF Len(sp.chunks) = 0
       THEN Ended(c.vs, c.fs, sp.chunks, flag, "split", c.mutated, FALSE)
       ELSE IF em.raised \/ Len(em.embeddings) = 0
       THEN Ended(c.vs, c.fs, sp.chunks, flag, "embed", c.mutated, FALSE)
       ELSE IF a.raised
       THEN Ended(a.vs, a.fs, sp.chunks, flag, "store",
                  c.mutated \/ a.mutated, a.stopped)
       ELSE IF VerifyRaises(a.vs, em.validated, probe_ok)
       THEN Ended(a.vs, a.fs, em.validated, flag, "verify", TRUE, FALSE)
       ELSE Ended(a.vs, a.fs, em.validated, TRUE, "ok", TRUE, FALSE)

\* the same for the pipeline the variables hold
IngestEnd(c, doc, sp, em, a, clear_existing, probe_ok) ==
    IngestEndOf(chunks, is_ingested, c, doc, sp, em, a, clear_existing, probe_ok)

\* the chunks ingest_document hands to embed_text_chunks for a document
ChunksOf(link, chunk_strategy, target_chunks) ==
    LET text == TextOf(link)
        size == optimize_chunk_size(CharLen(text), target_chunks)
    IN IF Supported(link)
       THEN split_text(text, size, OverlapFor(size), chunk_strategy).chunks
       ELSE <<>>

\* ingest_document, lines 19-110
Ingest(link, chunk_strategy, bs, clear_existing, o1, fetched, order, Z, o2, probe_ok) ==
    /\ alive
    /\ \E c \in {IF clear_existing THEN clear(vector_store, files, o1)
                                   ELSE NotCleared(vector_store, files)},
          doc \in {load_document(link, fetched)} :
       \E optimal_chunk_size \in
             {optimize_chunk_size(CharLen(doc.text), default_target_chunks)} :
       \E sp \in {split_text(doc.text, optimal_chunk_size,
                             OverlapFor(optimal_chunk_size), chunk_strategy)} :
       \E em \in {embed_text_chunks(sp.chunks, bs, order, Z)} :
       \E a \in {add(c.vs, c.fs, em.embeddings, em.validated, o2)} :
       \E r \in {IngestEnd(c, doc, sp, em, a, clear_existing, probe_ok)} :
          /\ ntotal(r.vs.index) <= MaxIndexed
          /\ Len(r.vs.meta) <= MaxIndexed
          /\ vector_store' = r.vs
          /\ files' = r.fs
          /\ chunks' = r.chunks
          /\ is_ingested' = r.is_ingested
          /\ alive' = ~r.stopped
          /\ last' = [NoCall EXCEPT !.op = "ingest", !.raised = r.outcome # "ok",
                                    !.mutated = r.mutated, !.outcome = r.outcome,
                                    !.clear_existing = clear_existing,
                                    !.ready_before = is_ingested]
    /\ UNCHANGED <<built_in_sync, rag_cache, evars, fvars>>

\* a readiness guard that never refuses
NotReadyNever(flag) == FALSE
\* line 121: not self.is_ingested
NotReady(flag) == ~flag

\* answer_query, lines 112-152: the two guards, retrieval (the query embedding
\* and the search can raise) and generation
AnswerOf(flag, chunk_list, vs, top_k, query_ok, generate_ok) ==
    IF NotReady(flag)
    THEN [outcome |-> "not_ready", retrieved |-> FALSE, generated |-> FALSE]
    ELSE IF Len(chunk_list) = 0
    THEN [outcome |-> "no_chunks", retrieved |-> FALSE, generated |-> FALSE]
    ELSE IF search(vs, EmbedOne(test_query, query_ok), top_k).raised
    THEN [outcome |-> "retrieval", retrieved |-> TRUE, generated |-> FALSE]
    ELSE IF ~generate_ok
    THEN [outcome |-> "generation", retrieved |-> TRUE, generated |-> TRUE]
    ELSE [outcome |-> "ok", retrieved |-> TRUE, generated |-> TRUE]

\* the same for the pipeline the variables hold
answer_query(top_k, query_ok, generate_ok) ==
    AnswerOf(is_ingested, chunks, vector_store, top_k, query_ok, generate_ok)

\* answer_query called on the pipeline, lines 112-152: no assignment to
\* self.chunks, self.is_ingested or the store
Answer(top_k, query_ok, generate_ok) ==
    /\ alive
    /\ \E r \in {answer_query(top_k, query_ok, generate_ok)} :
          last' = [NoCall EXCEPT !.op = "answer", !.raised = r.outcome # "ok",
                                 !.outcome = r.outcome,
                                 !.ready_before = is_ingested,
                                 !.retrieved = r.retrieved,
                                 !.generated = r.generated]
    /\ UNCHANGED <<vector_store, files, alive, built_in_sync, chunks,
                   is_ingested, rag_cache, evars, fvars>>

\* __init__, lines 11-17, over the files as they are
NewPipeline(embedding_dim) ==
    /\ ~ConstructRaises(files)
    /\ vector_store' = FaissVectorStore(embedding_dim, files)
    /\ built_in_sync' = InSync(FaissVectorStore(embedding_dim, files))
    /\ chunks' = <<>>
    /\ is_ingested' = FALSE
    /\ alive' = TRUE
    /\ last' = [NoCall EXCEPT !.op = "new"]
    /\ UNCHANGED <<files, rag_cache, evars, fvars>>

Init ==
    /\ e_chunks = <<>> /\ e_batch_size = 1 /\ e_max_workers = 1 /\ e_F = {}
    /\ EmbedIdle
    /\ FnIdle
    /\ files = NoFiles
    /\ \E d \in StoreDims : vector_store = FaissVectorStore(d, NoFiles)
    /\ alive = TRUE
    /\ built_in_sync = TRUE
    /\ last = NoCall
    /\ chunks = <<>>
    /\ is_ingested = FALSE
    /\ rag_cache = <<>>

\* a call that ends in the clear of line 36: nothing after it is evaluated
IngestClearRaises(link, o1) ==
    /\ o1 # "ok"
    /\ Ingest(link, "words", default_batch_size, TRUE, o1, TRUE, <<>>, {}, "ok", TRUE)

\* a call that ends at load_document, at the empty-text check or in split_text
IngestNoChunks(link, chunk_strategy, clear_existing, fetched) ==
    /\ Len(ChunksOf(link, chunk_strategy, default_target_chunks)) = 0 \/ ~fetched
    /\ Ingest(link, chunk_strategy, default_batch_size, clear_existing, "ok",
              fetched, <<>>, {}, "ok", TRUE)

\* a call that reaches embed_text_chunks, add and _verify_ingestion
IngestEmbedded(link, bs, clear_existing, order, Z, o2, probe_ok) ==
    /\ Len(ChunksOf(link, "words", default_target_chunks)) > 0
    /\ Ingest(link, "words", bs, clear_existing, "ok", TRUE, order, Z, o2, probe_ok)

\* the ways a save of the pipeline's store ends while the process lives on
SaveResults == SaveOutcomes \ {"stop_between"}

\* the fallback patterns of the model: no chunk, or every chunk, of a call
\* ends with the zero vector
ZeroPatterns(n) == {{}, 1..n}

Next ==
    \/ \E link \in Links, o1 \in SaveResults : IngestClearRaises(link, o1)
    \/ \E link \in Links, chunk_strategy \in Strategies,
          clear_existing \in BOOLEAN, fetched \in BOOLEAN :
          IngestNoChunks(link, chunk_strategy, clear_existing, fetched)
    \/ \E link \in Links, bs \in {1, default_batch_size} :
          \E given \in {ChunksOf(link, "words", default_target_chunks)} :
          \E order \in BatchOrders(BatchCountOf(given, bs)),
             Z \in ZeroPatterns(Len(ValidatedOf(given))),
             clear_existing \in BOOLEAN, o2 \in SaveResults, probe_ok \in BOOLEAN :
             IngestEmbedded(link, bs, clear_existing, order, Z, o2, probe_ok)
    \/ \E top_k \in {1, default_top_k}, query_ok \in BOOLEAN, generate_ok \in BOOLEAN :
          Answer(top_k, query_ok, generate_ok)
    \/ \E d \in StoreDims : NewPipeline(d)

Spec == Init /\ [][Next]_vars

\* the pipeline with the ingest_document calls that reach embed_text_chunks,
\* and new processes
NextIngest ==
    \/ \E link \in Links, bs \in {1, default_batch_size} :
          \E given \in {ChunksOf(link, "words", default_target_chunks)} :
          \E order \in BatchOrders(BatchCountOf(given, bs)),
             Z \in ZeroPatterns(Len(ValidatedOf(given))),
             clear_existing \in BOOLEAN, o2 \in SaveResults, probe_ok \in BOOLEAN :
             IngestEmbedded(link, bs, clear_existing, order, Z, o2, probe_ok)
    \/ \E d \in StoreDims : NewPipeline(d)

SpecIngest == Init /\ [][NextIngest]_vars

IngestSucceeded == last.op = "ingest" /\ last.outcome = "ok"
IngestFailed == last.op = "ingest" /\ last.outcome # "ok"

\* C2: after every successful ingest_document call, whatever the
\* clear_existing values of the calls so far, the index holds exactly the
\* newly ingested document: its count is len(chunks) and its metadata list
\* is chunks.
C2_ExactlyNewDocument ==
    IngestSucceeded =>
        /\ ntotal(vector_store.index) = Len(chunks)
        /\ vector_store.meta = chunks

\* C3: the readiness flag is false at construction, becomes true only in an
\* ingest_document call whose verification succeeded, and is false after
\* every clear of the index done for a new ingestion (until that ingestion
\* is verified).
C3_ReadinessFlag ==
    /\ last.op = "new" => ~is_ingested
    /\ (last.op = "ingest" /\ is_ingested /\ ~last.ready_before)
          => last.outcome = "ok"
    /\ (IngestFailed /\ last.clear_existing /\ last.mutated) => ~is_ingested

\* C4: after an ingest_document call that failed at load, split, embed, store
\* or verify, the pipeline is READY only if it was READY before the call,
\* clear_existing was false and the call did not touch the index.
C4_ReadyAfterFailure ==
    (IngestFailed /\ last.outcome # "clear" /\ is_ingested)
        => (last.ready_before /\ ~last.clear_existing /\ ~last.mutated)

\* C7: answer_query called while the readiness flag is false ends with the
\* not-ready error and calls neither retrieval nor generation.
C7_RefusedWhenNotReady ==
    (last.op = "answer" /\ ~is_ingested)
        => (last.outcome = "not_ready" /\ ~last.retrieved /\ ~last.generated)

\* answer_query was refused after an ingestion that failed with chunks kept
C7_Witness ==
    /\ last.op = "answer" /\ ~is_ingested /\ last.outcome = "not_ready"
    /\ Len(chunks) > 0

\* C12: an ingestion at whose verification step the index holds a number of
\* vectors other than the number of metadata entries does not succeed and does
\* not make the pipeline READY (a probe search without a result raises at
\* lines 199-200, so a call that succeeded had a result).
C12_VerificationFatal ==
    IngestSucceeded => InSync(vector_store)

Empty == ~is_ingested /\ chunks = <<>> /\ ntotal(vector_store.index) = 0

\* an ingest_document call for the document without text whose clear, if
\* any, returned
IngestBlank ==
    \E clear_existing \in BOOLEAN, chunk_strategy \in Strategies :
        Ingest("blank.pdf", chunk_strategy, default_batch_size, clear_existing,
               "ok", TRUE, <<>>, {}, "ok", TRUE)

\* C19: an ingest_document call for a document whose extracted text is empty
\* or whitespace-only, on a pipeline in state EMPTY, ends with the
\* empty-document error, and the pipeline is still EMPTY: not ready, no
\* chunks, no vector in the index.
C19_EmptyDocument ==
    [][(Empty /\ IngestBlank) => (last'.outcome = "empty" /\ Empty')]_vars

\* C19 witness: such a call has ended on a pipeline that it left as it was
C19_Witness ==
    /\ last.op = "ingest" /\ last.outcome = "empty" /\ ~last.clear_existing
    /\ Empty

----------------------------------------------------------------------------
(* search and retrieve_relevant_chunks called on a store that holds a chunk
   list *)

\* n chunks of pairwise distinct text
DistinctChunks(n) == [i \in 1..n |-> SmallChunk(i)]

\* the vectors embed_text_chunks returns for chunk_list when the remote calls
\* succeed (served) or all end in the fallback
VectorsFor(chunk_list, served) ==
    [i \in 1..Len(chunk_list) |->
        IF served THEN embed_content(chunk_list[i]) ELSE ZeroVector]

\* the store add leaves when a new store is given vecs and chunk_list
StoreOf(vecs, chunk_list) ==
    [dim |-> DefaultDim,
     index |-> [d |-> DefaultDim, vecs |-> vecs],
     meta |-> chunk_list]

\* the stores searched: 0..MaxChunks distinct chunks with their vectors
SearchStores ==
    {StoreOf(VectorsFor(DistinctChunks(n), served), DistinctChunks(n)) :
        n \in 0..MaxChunks, served \in BOOLEAN}

\* query vectors: of three query strings, and the zero vector
QueryVectors ==
    {embed_content(SmallChunk(i)) : i \in {1, 3, MaxChunks}} \cup {ZeroVector}

SearchArgs ==
    [fn : {"search"}, query_embedding : QueryVectors, top_k : 1..MaxTopK]

\* the two files a completed save of the store leaves
FilesOf(vs) == [index |-> IndexFileOf(vs.index), meta |-> MetaFileOf(vs.meta)]

\* a search that goes on to clear the store
SearchThenClear ==
    /\ fn_args.fn = "search"
    /\ fn_result = NoFn
    /\ fn_result' = search(vector_store, fn_args.query_embedding, fn_args.top_k)
    /\ vector_store' = clear(vector_store, files, "ok").vs
    /\ files' = clear(vector_store, files, "ok").fs
    /\ UNCHANGED <<fn_args, evars, alive, built_in_sync, last, pvars>>

\* search, lines 46-50: no assignment to self.index or self.meta, no save
CallSearch ==
    /\ fn_args.fn = "search"
    /\ fn_result = NoFn
    /\ fn_result' = search(vector_store, fn_args.query_embedding, fn_args.top_k)
    /\ UNCHANGED <<fn_args, evars, svars, pvars>>

\* the same search called a second time; again holds what this call returned
CallSearchAgain ==
    /\ fn_args.fn = "search"
    /\ fn_result # NoFn
    /\ "again" \notin DOMAIN fn_result
    /\ fn_result' = [raised |-> fn_result.raised, results |-> fn_result.results,
                     again |-> search(vector_store, fn_args.query_embedding,
                                      fn_args.top_k)]
    /\ UNCHANGED <<fn_args, evars, svars, pvars>>

----------------------------------------------------------------------------
(* rag/retriever.py: retrieve_relevant_chunks *)

\* all_chunks.index(chunk), 0-based; -1 stands for the ValueError
IndexIn(all_chunks, chunk) ==
    IF \E i \in 1..Len(all_chunks) : all_chunks[i] = chunk
    THEN (CHOOSE i \in 1..Len(all_chunks) :
              /\ all_chunks[i] = chunk
              /\ \A j \in 1..(i - 1) : all_chunks[j] # chunk) - 1
    ELSE -1

\* a list of the members of a set of integers: descending, and ascending as
\* list.sort() leaves it
RECURSIVE Descending(_)
Descending(S) ==
    IF S = {} THEN <<>>
    ELSE LET top == CHOOSE x \in S : \A y \in S : y <= x
         IN <<top>> \o Descending(S \ {top})
RECURSIVE Sorted(_)
Sorted(S) ==
    IF S = {} THEN <<>>
    ELSE LET least == CHOOSE x \in S : \A y \in S : x <= y
         IN <<least>> \o Sorted(S \ {least})

\* int(total_chunks * context_ratio) for context_ratio = quarters / 4
ContextCount(total_chunks, quarters) == (total_chunks * quarters) \div 4

\* neighbours taken only one place away
NeighboursOnePlace(relevant_indices, total_chunks) ==
    {idx + offset : idx \in relevant_indices, offset \in -1..1}
        \cap ((0..(total_chunks - 1)) \ relevant_indices)

\* lines 54-59: the neighbours, up to two places away, of the relevant chunks
Neighbours(relevant_indices, total_chunks) ==
    {idx + offset : idx \in relevant_indices, offset \in -2..2}
        \cap ((0..(total_chunks - 1)) \ relevant_indices)

\* a sampling that takes additional_needed positions, not a third of them,
\* from each of the start, the middle and the end
AdditionalInFull(remaining_indices, additional_needed) ==
    LET len == Len(remaining_indices)
        mid_start == len \div 2
        end_start == Max(0, len - additional_needed)
        picked == (0..(Min(additional_needed, len) - 1))
                     \cup (mid_start..(Min(mid_start + additional_needed, len) - 1))
                     \cup (end_start..(len - 1))
    IN {remaining_indices[i + 1] : i \in picked}

\* lines 62-79: the chunks added from the start, the middle and the end of
\* remaining_indices (0-based positions lo..hi-1 of that list)
Additional(remaining_indices, additional_needed) ==
    LET len == Len(remaining_indices)
        third == additional_needed \div 3
        mid_start == len \div 2
        end_start == Max(0, len - third)
        picked == (0..(Min(third, len) - 1))
                     \cup (mid_start..(Min(mid_start + third, len) - 1))
                     \cup (end_start..(len - 1))
    IN {remaining_indices[i + 1] : i \in picked}

\* retrieve_relevant_chunks, lines 4-88: the list it returns, with the values
\* its locals relevant_indices and context_indices (after line 59: near, at
\* line 82: context_indices) hold
retrieve_relevant_chunks(query, query_ok, vs, all_chunks, top_k, quarters) ==
    LET found == search(vs, EmbedOne(query, query_ok), top_k)
        relevant_indices ==
            {IndexIn(all_chunks, found.results[j]) : j \in 1..Len(found.results)}
                \ {-1}
        total_chunks == Len(all_chunks)
        context_chunks_count == ContextCount(total_chunks, quarters)
        remaining_indices == Sorted((0..(total_chunks - 1)) \ relevant_indices)
        near == Neighbours(relevant_indices, total_chunks)
        context_indices ==
            IF Cardinality(near) < context_chunks_count
            THEN near \cup Additional(remaining_indices,
                                      context_chunks_count - Cardinality(near))
            ELSE near
        all_selected_indices == Sorted(relevant_indices \cup context_indices)
    IN IF found.raised
       THEN [raised |-> TRUE, result |-> <<>>,
             relevant_indices |-> {}, near |-> {}, context_indices |-> {}]
       ELSE [raised |-> FALSE,
             result |-> [k \in 1..Len(all_selected_indices) |->
                           [idx |-> all_selected_indices[k],
                            chunk |-> all_chunks[all_selected_indices[k] + 1]]],
             relevant_indices |-> relevant_indices,
             near |-> near,
             context_indices |-> context_indices]

\* the chunk lists retrieval is given: pairwise distinct chunks, or equal ones
RetrieveChunkLists ==
    {DistinctChunks(n) : n \in 0..MaxChunks}
        \cup {[i \in 1..n |-> SmallChunk(1)] : n \in 2..MaxChunks}

RetrieveArgs ==
    [fn : {"retrieve_relevant_chunks"},
     query : {SmallChunk(1), SmallChunk(3), SmallChunk(MaxChunks)},
     query_ok : BOOLEAN,
     top_k : 1..MaxTopK,
     quarters : 0..4]

CallRetrieve ==
    /\ fn_args.fn = "retrieve_relevant_chunks"
    /\ fn_result = NoFn
    /\ fn_result' = retrieve_relevant_chunks(fn_args.query, fn_args.query_ok,
                                             vector_store, chunks,
                                             fn_args.top_k, fn_args.quarters)
    /\ UNCHANGED <<fn_args, evars, svars, pvars>>

AnswerArgs ==
    [fn : {"answer_query"},
     top_k : {1, default_top_k},
     query_ok : BOOLEAN,
     generate_ok : BOOLEAN]

\* an answer_query that resets the readiness flag when it fails
AnswerThenNotReady ==
    /\ fn_args.fn = "answer_query"
    /\ fn_result = NoFn
    /\ \E r \in {answer_query(fn_args.top_k, fn_args.query_ok, fn_args.generate_ok)} :
          /\ fn_result' = r
          /\ is_ingested' = (is_ingested /\ r.outcome = "ok")
    /\ UNCHANGED <<fn_args, evars, svars, chunks, rag_cache>>

\* answer_query, lines 112-152, called on the pipeline: no assignment to
\* self.chunks, self.is_ingested or the store
CallAnswer ==
    /\ fn_args.fn = "answer_query"
    /\ fn_result = NoFn
    /\ fn_result' = answer_query(fn_args.top_k, fn_args.query_ok,
                                 fn_args.generate_ok)
    /\ UNCHANGED <<fn_args, evars, svars, pvars>>

InitQuery ==
    /\ e_chunks = <<>> /\ e_batch_size = 1 /\ e_max_workers = 1 /\ e_F = {}
    /\ EmbedIdle
    /\ alive = TRUE /\ built_in_sync = TRUE /\ last = NoCall
    /\ rag_cache = <<>>
    /\ fn_result = NoFn
    /\ vector_store \in SearchStores
    /\ files = FilesOf(vector_store)
    /\ \/ /\ chunks = vector_store.meta /\ is_ingested = TRUE
          /\ fn_args \in SearchArgs
       \/ /\ chunks \in RetrieveChunkLists /\ is_ingested = TRUE
          /\ fn_args \in RetrieveArgs
       \/ /\ chunks \in RetrieveChunkLists /\ is_ingested \in BOOLEAN
          /\ fn_args \in AnswerArgs

NextQuery ==
    \/ CallSearch
    \/ CallSearchAgain
    \/ CallRetrieve
    \/ CallAnswer

SpecQuery == InitQuery /\ [][NextQuery]_vars

SearchReturned == fn_args.fn = "search" /\ fn_result # NoFn

\* position (1-based) of a stored entry in the metadata list
PositionOf(meta, entry) == CHOOSE i \in 1..Len(meta) : meta[i] = entry

\* C13: search(query, top_k) returns exactly min(top_k, count) metadata
\* entries, each stored entry at most once, nearest first by squared L2
\* distance; on an index without entries it returns the empty sequence and
\* does not fail.
C13_SearchResults ==
    SearchReturned =>
        LET found == fn_result.results
            q == fn_args.query_embedding
            vecs == vector_store.index.vecs
            meta == vector_store.meta
        IN /\ ~fn_result.raised
           /\ Len(found) = Min(fn_args.top_k, ntotal(vector_store.index))
           /\ \A i, j \in 1..Len(found) : i # j => found[i] # found[j]
           /\ \A i, j \in 1..Len(found) :
                 i < j => Distance(vecs[PositionOf(meta, found[i])], q)
                            <= Distance(vecs[PositionOf(meta, found[j])], q)

----------------------------------------------------------------------------
(* rag/text_splitter.py: its functions called on their own *)

\* the words of the chunks handed to the validation pass
ValidateWords == {W(1, 1), W(2, MaxWordBytes)}

\* chunks of up to MaxChunkWords words with p bytes of further whitespace
ValidateChunks(p) ==
    {Str(ws, p) : ws \in SeqsUpTo(ValidateWords, MaxChunkWords)}

\* lists of chunks without, and of chunks with two bytes of, further whitespace
ValidateArgs ==
    [fn : {"validate_and_split_chunks"},
     chunk_list : SeqsUpTo(ValidateChunks(0), MaxListLen)
                      \cup SeqsUpTo(ValidateChunks(2), MaxListLen),
     max_bytes : 1..MaxBytes]

\* the texts handed to split_text: n words, one byte each, with every choice
\* of sentence ends and paragraph breaks; the empty string; two blanks
SplitTexts ==
    {Text([i \in 1..n |-> W(i, 1)], stops, breaks) :
        n \in 1..MaxWords, stops \in SUBSET (1..(MaxWords - 1)),
        breaks \in SUBSET (1..(MaxWords - 1))}
    \cup {Str(<<>>, 0), Str(<<>>, 2)}

WellFormed(text) ==
    \A i \in Stops(text) \cup Breaks(text) : i < Len(text.words)

SupportedStrategies == {"words", "sentences", "paragraphs"}

SplitArgs ==
    [fn : {"split_text"},
     text : {t \in SplitTexts : WellFormed(t)},
     chunk_size : 1..MaxSize,
     overlap : 0..MaxSize,
     strategy : SupportedStrategies \cup {"lines"}]

CallValidate ==
    /\ fn_args.fn = "validate_and_split_chunks"
    /\ fn_result = NoFn
    /\ fn_result' = [raised |-> FALSE,
                     chunks |-> validate_and_split_chunks(fn_args.chunk_list,
                                                          fn_args.max_bytes)]
    /\ UNCHANGED <<fn_args, evars, svars, pvars>>

\* ingest_document, lines 49-58: the chunk size chosen for the text and the
\* chunks split_text makes of it
IngestSplit(text, chunk_strategy, target_chunks) ==
    LET optimal_chunk_size == optimize_chunk_size(CharLen(text), target_chunks)
    IN split_text(text, optimal_chunk_size, OverlapFor(optimal_chunk_size),
                  chunk_strategy)

\* a document of n words of b bytes each
UniformText(n, b) == Str([i \in 1..n |-> W(i, b)], 0)

\* documents of ScenarioWords words, ingested with the word strategy
IngestSplitArgs ==
    [fn : {"ingest_split"},
     text : {UniformText(ScenarioWords, b) : b \in 1..MaxWordBytes},
     chunk_strategy : {"words"},
     target_chunks : {ScenarioTargetChunks}]

CallIngestSplit ==
    /\ fn_args.fn = "ingest_split"
    /\ fn_result = NoFn
    /\ fn_result' = IngestSplit(fn_args.text, fn_args.chunk_strategy,
                                fn_args.target_chunks)
    /\ UNCHANGED <<fn_args, evars, svars, pvars>>

\* ingest_document, lines 49-58: the chunk_size and the overlap it hands to
\* split_text for a text of text_length characters
IngestSizing(text_length, target_chunks) ==
    LET optimal_chunk_size == optimize_chunk_size(text_length, target_chunks)
    IN [raised |-> FALSE,
        chunk_size |-> optimal_chunk_size,
        overlap |-> OverlapFor(optimal_chunk_size)]

IngestSizingArgs ==
    [fn : {"ingest_sizing"},
     text_length : 0..MaxTextLength,
     target_chunks : -1..MaxTargetChunks]

CallIngestSizing ==
    /\ fn_args.fn = "ingest_sizing"
    /\ fn_result = NoFn
    /\ fn_result' = IngestSizing(fn_args.text_length, fn_args.target_chunks)
    /\ UNCHANGED <<fn_args, evars, svars, pvars>>

CallSplit ==
    /\ fn_args.fn = "split_text"
    /\ fn_result = NoFn
    /\ fn_result' = split_text(fn_args.text, fn_args.chunk_size, fn_args.overlap,
                               fn_args.strategy)
    /\ UNCHANGED <<fn_args, evars, svars, pvars>>

InitSplit ==
    /\ e_chunks = <<>> /\ e_batch_size = 1 /\ e_max_workers = 1 /\ e_F = {}
    /\ EmbedIdle
    /\ StoreUnused
    /\ fn_result = NoFn
    /\ fn_args \in ValidateArgs \cup SplitArgs \cup IngestSplitArgs
                    \cup IngestSizingArgs

NextSplit ==
    \/ CallValidate
    \/ CallSplit
    \/ CallIngestSplit
    \/ CallIngestSizing

SpecSplit == InitSplit /\ [][NextSplit]_vars

Validated == fn_args.fn = "validate_and_split_chunks" /\ fn_result # NoFn

\* C14: every chunk validate_and_split_chunks returns has at most max_bytes
\* UTF-8 bytes, for every chunk list and every max_bytes.
C14_WithinMaxBytes ==
    Validated =>
        \A i \in 1..Len(fn_result.chunks) :
            ByteLen(fn_result.chunks[i]) <= fn_args.max_bytes

\* the words of the chunks of a list, read in order
WordsOf(chunk_list) ==
    Concat([i \in 1..Len(chunk_list) |-> chunk_list[i].words])

\* out is chunk_list with every chunk over the limit replaced, in its place,
\* by pieces that hold its words in order
RECURSIVE InPlace(_, _, _)
InPlace(chunk_list, out, max_bytes) ==
    IF Len(chunk_list) = 0 THEN Len(out) = 0
    ELSE IF ByteLen(Head(chunk_list)) <= max_bytes
    THEN /\ Len(out) > 0
         /\ Head(out) = Head(chunk_list)
         /\ InPlace(Tail(chunk_list), Tail(out), max_bytes)
    ELSE \E k \in 0..Len(out) :
            /\ WordsOf(SubSeq(out, 1, k)) = Head(chunk_list).words
            /\ InPlace(Tail(chunk_list), SubSeq(out, k + 1, Len(out)), max_bytes)

\* C15: validate_and_split_chunks keeps the words and their order: the words
\* of the output chunks read in order are the words of the input chunks read
\* in order, a chunk within the limit is emitted unchanged, and the pieces of
\* a split chunk stand in the place of the original chunk.
C15_WordsPreserved ==
    Validated =>
        /\ WordsOf(fn_result.chunks) = WordsOf(fn_args.chunk_list)
        /\ InPlace(fn_args.chunk_list, fn_result.chunks, fn_args.max_bytes)

\* C15 witness: a chunk over the limit, after a chunk within it, was split
\* into two or more pieces
C15_Witness ==
    /\ Validated
    /\ Len(fn_args.chunk_list) = 2
    /\ ByteLen(fn_args.chunk_list[1]) <= fn_args.max_bytes
    /\ ByteLen(fn_args.chunk_list[2]) > fn_args.max_bytes
    /\ Len(fn_result.chunks) >= 3

SplitEnded == fn_args.fn = "split_text" /\ fn_result # NoFn

\* chunk holds the words first..last of the text, where first and last are
\* the positions its first and last word have in the text
Run(chunk) == [first |-> chunk.words[1].id, last |-> chunk.words[Len(chunk.words)].id]

\* the chunks hold runs of the text's words that start with the first word,
\* end with the last, leave no gap, and never step back
InDocumentOrder(text, out) ==
    /\ Len(out) > 0
    /\ \A k \in 1..Len(out) :
          /\ Len(out[k].words) > 0
          /\ out[k].words = SubSeq(text.words, Run(out[k]).first, Run(out[k]).last)
    /\ Run(out[1]).first = 1
    /\ Run(out[Len(out)]).last = Len(text.words)
    /\ \A k \in 1..(Len(out) - 1) :
          /\ Run(out[k + 1]).first <= Run(out[k]).last + 1
          /\ Run(out[k]).first <= Run(out[k + 1]).first
          /\ Run(out[k]).last <= Run(out[k + 1]).last

\* C16: for every text that holds a word, each of the three strategies,
\* chunk_size >= 1 and overlap >= 0, split_text returns chunks in which every
\* word of the text occurs, and which read in order present the words in
\* document order with no duplicates other than overlaps.
C16_NoWordDropped ==
    (SplitEnded /\ fn_args.strategy \in SupportedStrategies
                /\ ~Blank(fn_args.text)) =>
        /\ ~fn_result.raised
        /\ InDocumentOrder(fn_args.text, fn_result.chunks)

\* C20: split_text raises the invalid-strategy error, and returns no chunk
\* list, whenever strategy is not one of the three strategies, for every
\* text, the empty and the whitespace-only text included.
C20_InvalidStrategy ==
    (SplitEnded /\ fn_args.strategy \notin SupportedStrategies) =>
        fn_result.raised

Retrieved == fn_args.fn = "retrieve_relevant_chunks" /\ fn_result # NoFn

\* C17: for every query, index, chunk list, top_k and context_ratio, the
\* positions in the result of retrieve_relevant_chunks are strictly
\* increasing, each lies in 0..len(all_chunks)-1, and each is paired with
\* all_chunks[position].
C17_PositionsIncreasing ==
    (Retrieved /\ ~fn_result.raised) =>
        LET result == fn_result.result
        IN /\ \A k \in 1..(Len(result) - 1) : result[k].idx < result[k + 1].idx
           /\ \A k \in 1..Len(result) :
                 /\ result[k].idx \in 0..(Len(chunks) - 1)
                 /\ result[k].chunk = chunks[result[k].idx + 1]

\* C17 witness: a result of three or more pairs that is not a run of
\* consecutive positions
C17_Witness ==
    /\ Retrieved /\ ~fn_result.raised
    /\ Len(fn_result.result) >= 3
    /\ \E k \in 1..(Len(fn_result.result) - 1) :
          fn_result.result[k + 1].idx > fn_result.result[k].idx + 1

\* the store holds exactly the chunk list, one vector per chunk, and the
\* chunks are pairwise distinct
HoldsDistinctChunks ==
    /\ vector_store.meta = chunks
    /\ InSync(vector_store)
    /\ \A i, j \in 1..Len(chunks) : i # j => chunks[i] # chunks[j]

\* C18: for a READY pipeline whose n chunks have pairwise distinct text and
\* n >= top_k, retrieval returns at least top_k and at most
\* top_k + floor(n * context_ratio) chunks, for every top_k and every
\* context_ratio in [0, 1].
C18_ResultSize ==
    (Retrieved /\ is_ingested /\ HoldsDistinctChunks
               /\ Len(chunks) >= fn_args.top_k) =>
        /\ ~fn_result.raised
        /\ Len(fn_result.result) >= fn_args.top_k
        /\ Len(fn_result.result)
              <= fn_args.top_k + ContextCount(Len(chunks), fn_args.quarters)

\* a search call ends in this step
SearchEnds == fn_args.fn = "search" /\ fn_result' # fn_result

IngestSplitEnded == fn_args.fn = "ingest_split" /\ fn_result # NoFn

\* x is approximately y: neither is more than twice the other
Approximately(x, y) == x <= 2 * y /\ y <= 2 * x

\* C22: ingesting a document with the word strategy produces approximately
\* target_chunks chunks of approximately (word count / target_chunks) words
\* each (the last chunk may be shorter): a 3000-word document with
\* target_chunks=10 yields about 10 chunks of about 300 words.
C22_TargetChunks ==
    IngestSplitEnded =>
        LET out == fn_result.chunks
            per_chunk == Len(fn_args.text.words) \div fn_args.target_chunks
        IN /\ ~fn_result.raised
           /\ Approximately(Len(out), fn_args.target_chunks)
           /\ \A k \in 1..(Len(out) - 1) :
                 Approximately(Len(out[k].words), per_chunk)

----------------------------------------------------------------------------
(* main.py and api.py: the two handlers of POST /hackrx/run *)

\* embed_text of main.py, lines 22-25: DIM pseudo-random numbers seeded by
\* the text
embed_text(text) == [dim |-> MainDim, x |-> 1 + SumIds(text.words)]

\* a request: the handler it reaches, payload.documents, the number of
\* payload.questions, whether the document can be downloaded and whether the
\* bearer token is the expected one
RunRequests ==
    [fn : {"main.run_endpoint", "api.run_endpoint"},
     documents : Links,
     questions : 0..MaxQuestions,
     fetched : BOOLEAN,
     authorized : BOOLEAN]

\* a response: the status, the answers (one entry per question answered) and
\* whether a write of a file or a remote call failed while it was made
Response(status, n, faults) ==
    [status |-> status, answers |-> [i \in 1..n |-> i], faults |-> faults]

\* RAGPipeline(), rag_pipeline.py lines 11-17, over the files as they are
RAGPipeline(fs) ==
    [vs |-> FaissVectorStore(DefaultDim, fs), chunks |-> <<>>, is_ingested |-> FALSE]

\* every question of 1..n is answered by the pipeline p
AllAnswered(p, n, query_ok, generate_ok) ==
    \A i \in 1..n :
        AnswerOf(p.is_ingested, p.chunks, p.vs, default_top_k,
                 query_ok[i], generate_ok[i]).outcome = "ok"

\* some remote call for a question fails
AnswerFaults(n, query_ok, generate_ok) ==
    \E i \in 1..n : ~query_ok[i] \/ ~generate_ok[i]

\* main.py, rag_pipeline, lines 88-109: the document is split, embedded with
\* embed_text and put into the module's vector_store
MainStored(req, vs, fs, o1, o2) ==
    LET full_text == TextOf(req.documents)
        sp == split_text(full_text, MainChunkSize, MainOverlap, "words")
        chunk_list == validate_and_split_chunks(sp.chunks, default_max_bytes)
        c == clear(vs, fs, o1)
        a == add(c.vs, c.fs,
                 [i \in 1..Len(chunk_list) |-> embed_text(chunk_list[i])],
                 [i \in 1..Len(chunk_list) |-> [text |-> chunk_list[i]]], o2)
    IN IF ~req.fetched \/ ~Supported(req.documents) \/ Blank(full_text)
          \/ sp.raised
       THEN [raised |-> TRUE, vs |-> vs, fs |-> fs]
       ELSE IF c.raised
       THEN [raised |-> TRUE, vs |-> c.vs, fs |-> c.fs]
       ELSE [raised |-> a.raised, vs |-> a.vs, fs |-> a.fs]

\* main.py, lines 111-115: every question gets a RAGPipeline of its own
MainAnswered(fs, n, query_ok, generate_ok) ==
    n > 0 => /\ ~ConstructRaises(fs)
             /\ AllAnswered(RAGPipeline(fs), n, query_ok, generate_ok)

\* run_endpoint of main.py, lines 119-124, with rag_pipeline
MainRun(o1, o2, query_ok, generate_ok) ==
    /\ fn_args.fn = "main.run_endpoint"
    /\ fn_args.authorized
    /\ fn_result = NoFn
    /\ \E st \in {MainStored(fn_args, vector_store, files, o1, o2)},
          f \in {o1 # "ok" \/ o2 # "ok"
                    \/ AnswerFaults(fn_args.questions, query_ok, generate_ok)} :
          /\ vector_store' = st.vs
          /\ files' = st.fs
          /\ fn_result' =
                IF ~st.raised /\ MainAnswered(st.fs, fn_args.questions,
                                              query_ok, generate_ok)
                THEN Response(200, fn_args.questions, f)
                ELSE Response(500, 0, f)
    /\ UNCHANGED <<fn_args, evars, alive, built_in_sync, last, pvars>>

\* the parameters of ingest_document, rag_pipeline.py line 19
IngestParameters ==
    {"link", "chunk_strategy", "target_chunks", "batch_size", "max_workers",
     "clear_existing"}

\* the keyword arguments of the call of api.py, lines 61-69
ApiIngestKeywords ==
    {"chunk_strategy", "target_chunks", "batch_size", "max_workers",
     "clear_existing", "use_cache"}

\* a call with a keyword the function does not have raises TypeError
UnexpectedKeyword(keywords) == keywords \ IngestParameters # {}

\* api.py, lines 59-69: the pipeline p is ingested into unless it is ready
ApiIngested(req, p, fs, order, Z, o2, probe_ok) ==
    LET doc == load_document(req.documents, req.fetched)
        optimal_chunk_size ==
            optimize_chunk_size(CharLen(doc.text), default_target_chunks)
        sp == split_text(doc.text, optimal_chunk_size,
                         OverlapFor(optimal_chunk_size), "sentences")
        em == embed_text_chunks(sp.chunks, default_batch_size, order, Z)
        c == NotCleared(p.vs, fs)
        a == add(c.vs, c.fs, em.embeddings, em.validated, o2)
        r == IngestEndOf(p.chunks, p.is_ingested, c, doc, sp, em, a, FALSE, probe_ok)
    IN IF p.is_ingested /\ Len(p.chunks) > 0
       THEN [raised |-> FALSE, p |-> p, fs |-> fs]
       ELSE IF UnexpectedKeyword(ApiIngestKeywords)
       THEN [raised |-> TRUE, p |-> p, fs |-> fs]
       ELSE [raised |-> r.outcome # "ok",
             p |-> [vs |-> r.vs, chunks |-> r.chunks, is_ingested |-> r.is_ingested],
             fs |-> r.fs]

\* rag_cache with the pipeline p under link
Cached(link, p) ==
    [l \in DOMAIN rag_cache \cup {link} |-> IF l = link THEN p ELSE rag_cache[l]]

\* the chunks the api handler's ingestion would embed for a link
ApiChunksOf(link) ==
    LET text == TextOf(link)
        size == optimize_chunk_size(CharLen(text), default_target_chunks)
    IN IF Supported(link)
       THEN split_text(text, size, OverlapFor(size), "sentences").chunks
       ELSE <<>>

\* run_endpoint of api.py, lines 46-86, with get_cached_rag_pipeline
ApiRun(order, Z, o2, probe_ok, query_ok, generate_ok) ==
    /\ fn_args.fn = "api.run_endpoint"
    /\ fn_args.authorized
    /\ fn_result = NoFn
    /\ \E f \in {o2 # "ok" \/ ~probe_ok \/ Z # {}
                    \/ AnswerFaults(fn_args.questions, query_ok, generate_ok)} :
       IF fn_args.documents \notin DOMAIN rag_cache /\ ConstructRaises(files)
       THEN /\ fn_result' = Response(500, 0, f)
            /\ UNCHANGED <<files, rag_cache>>
       ELSE \E p \in {IF fn_args.documents \in DOMAIN rag_cache
                       THEN rag_cache[fn_args.documents]
                       ELSE RAGPipeline(files)} :
            \E ing \in {ApiIngested(fn_args, p, files, order, Z, o2, probe_ok)} :
               /\ rag_cache' = Cached(fn_args.documents, ing.p)
               /\ files' = ing.fs
               /\ fn_result' =
                     IF ~ing.raised /\ AllAnswered(ing.p, fn_args.questions,
                                                   query_ok, generate_ok)
                     THEN Response(200, fn_args.questions, f)
                     ELSE Response(500, 0, f)
    /\ UNCHANGED <<fn_args, evars, vector_store, alive, built_in_sync, last,
                   chunks, is_ingested>>

\* verify_token, lines 19-22 of api.py and 30-33 of main.py
Unauthorized ==
    /\ fn_args.fn \in {"main.run_endpoint", "api.run_endpoint"}
    /\ ~fn_args.authorized
    /\ fn_result = NoFn
    /\ fn_result' = Response(401, 0, FALSE)
    /\ UNCHANGED <<fn_args, evars, svars, pvars>>

\* the next request to the application (main:app or api:app, each with its
\* own POST /hackrx/run) arrives once the last one was responded to
Receive(req) ==
    /\ fn_result # NoFn
    /\ req.fn = fn_args.fn
    /\ fn_args' = req
    /\ fn_result' = NoFn
    /\ UNCHANGED <<evars, svars, pvars>>

\* the process has started: main.py's module-level store (line 19) and the
\* empty rag_cache of api.py (line 16), with no files yet, and the first
\* request has arrived
InitRun ==
    /\ e_chunks = <<>> /\ e_batch_size = 1 /\ e_max_workers = 1 /\ e_F = {}
    /\ EmbedIdle
    /\ fn_args \in RunRequests /\ fn_result = NoFn
    /\ files = NoFiles
    /\ vector_store = FaissVectorStore(MainDim, NoFiles)
    /\ alive = TRUE /\ built_in_sync = TRUE /\ last = NoCall
    /\ chunks = <<>> /\ is_ingested = FALSE /\ rag_cache = <<>>

NextRun ==
    \/ \E req \in RunRequests : Receive(req)
    \/ Unauthorized
    \/ /\ fn_args.fn = "main.run_endpoint"
       /\ \E o1 \in SaveResults, o2 \in SaveResults,
             query_ok \in [1..fn_args.questions -> BOOLEAN],
             generate_ok \in [1..fn_args.questions -> BOOLEAN] :
             MainRun(o1, o2, query_ok, generate_ok)
    \/ /\ fn_args.fn = "api.run_endpoint"
       /\ \E given \in {ApiChunksOf(fn_args.documents)} :
          \E order \in BatchOrders(BatchCountOf(given, default_batch_size)),
             Z \in ZeroPatterns(Len(ValidatedOf(given))),
             o2 \in SaveResults, probe_ok \in BOOLEAN,
             query_ok \in [1..fn_args.questions -> BOOLEAN],
             generate_ok \in [1..fn_args.questions -> BOOLEAN] :
             ApiRun(order, Z, o2, probe_ok, query_ok, generate_ok)

SpecRun == InitRun /\ [][NextRun]_vars

\* a run handler has responded to an authenticated request that names a
\* document which can be downloaded and holds text, with one or more
\* questions, and no write of a file or remote call failed on the way
RunAnswered ==
    /\ fn_args.fn \in {"main.run_endpoint", "api.run_endpoint"}
    /\ fn_result # NoFn
    /\ fn_args.authorized /\ fn_args.fetched
    /\ Supported(fn_args.documents) /\ ~Blank(TextOf(fn_args.documents))
    /\ fn_args.questions >= 1
    /\ ~fn_result.faults

\* C23: for an authenticated request naming a fetchable document with
\* extractable text and N >= 1 questions, the run handler ingests the
\* document and returns exactly N answers, one per question in question
\* order; it returns the generic failure status only when an internal step
\* fails.
C23_RunAnswers ==
    RunAnswered =>
        /\ fn_result.status = 200
        /\ Len(fn_result.answers) = fn_args.questions

\* C24: with the word strategy, when the text has more than chunk_size
\* words and overlap >= chunk_size, split_text terminates and returns a
\* non-empty chunk list covering every word, the window advancing by at
\* least one word.
C24_AdvanceClamped ==
    (SplitEnded /\ fn_args.strategy = "words"
                /\ Len(fn_args.text.words) > fn_args.chunk_size
                /\ fn_args.overlap >= fn_args.chunk_size) =>
        /\ ~fn_result.raised
        /\ Len(fn_result.chunks) > 0
        /\ \A i \in 1..Len(fn_args.text.words) :
              \E k \in 1..Len(fn_result.chunks) :
                 \E j \in 1..Len(fn_result.chunks[k].words) :
                    fn_result.chunks[k].words[j] = fn_args.text.words[i]

\* the number of words chunk k + 1 repeats from the end of chunk k
CarriedWords(out, k) ==
    Max(0, Run(out[k]).last - Run(out[k + 1]).first + 1)

\* C25: with the sentence strategy, each time a chunk is closed the next
\* chunk is seeded with a suffix of the closed chunk that holds at most
\* overlap words (counted in words, not in sentences): a chunk never carries
\* more than overlap words over from its predecessor.
C25_OverlapInWords ==
    (SplitEnded /\ fn_args.strategy = "sentences" /\ ~fn_result.raised) =>
        \A k \in 1..(Len(fn_result.chunks) - 1) :
            CarriedWords(fn_result.chunks, k) <= fn_args.overlap

\* the position, among the words of the whole list, of the first word of
\* chunk k of the list (for k = Len + 1: one past the last word)
FirstWord(chunk_list, k) == 1 + Len(WordsOf(SubSeq(chunk_list, 1, k - 1)))

\* pieces k and k + 1 of out were cut from one chunk of chunk_list that was
\* over the limit
CutFromOneChunk(chunk_list, out, max_bytes, k) ==
    \E i \in 1..Len(chunk_list) :
        /\ ByteLen(chunk_list[i]) > max_bytes
        /\ Len(out[k].words) > 0 /\ Len(out[k + 1].words) > 0
        /\ FirstWord(chunk_list, i) <= FirstWord(out, k)
        /\ FirstWord(out, k + 2) <= FirstWord(chunk_list, i + 1)

\* piece k joined by one space with the first word of piece k + 1
Extended(out, k) == JoinWords(Append(out[k].words, Head(out[k + 1].words)))

\* C26: the pieces validate_and_split_chunks cuts from an oversized chunk are
\* maximal: no piece, joined by one space with the first word of the piece
\* that follows it, has a byte length of at most max_bytes.
C26_PiecesMaximal ==
    Validated =>
        \A k \in 1..(Len(fn_result.chunks) - 1) :
            CutFromOneChunk(fn_args.chunk_list, fn_result.chunks,
                            fn_args.max_bytes, k)
                => ByteLen(Extended(fn_result.chunks, k)) > fn_args.max_bytes

\* the positions of all_chunks the retrieval result holds
ResultPositions == {fn_result.result[k].idx : k \in 1..Len(fn_result.result)}

\* C27: for every relevant position p resolved from the search hits, every
\* position q of all_chunks at most two places from p is in the retrieval
\* result, whatever context_ratio is.
C27_WindowIncluded ==
    (Retrieved /\ ~fn_result.raised) =>
        \A p \in fn_result.relevant_indices :
            \A q \in 0..(Len(chunks) - 1) :
                (q - p \in -2..2) => q \in ResultPositions

\* C27 witness: with context_ratio 0, a position two places from a relevant
\* position, itself not relevant, is in the result
C27_Witness ==
    /\ Retrieved /\ ~fn_result.raised
    /\ fn_args.quarters = 0
    /\ \E p \in fn_result.relevant_indices :
          /\ p + 2 < Len(chunks)
          /\ p + 2 \notin fn_result.relevant_indices
          /\ p + 2 \in ResultPositions

\* the positions the sampling from the start, the middle and the end added
Sampled == fn_result.context_indices \ fn_result.near

\* C28: the sampling from the head, the middle and the tail adds positions
\* only when the neighbour windows left fewer context positions than the
\* target floor(len(all_chunks) * context_ratio); it never picks a relevant
\* position; and it never raises the number of context positions above the
\* target.
C28_SamplingBounded ==
    (Retrieved /\ ~fn_result.raised) =>
        LET target == ContextCount(Len(chunks), fn_args.quarters)
        IN /\ Sampled # {} => Cardinality(fn_result.near) < target
           /\ Sampled \cap fn_result.relevant_indices = {}
           /\ Sampled # {} => Cardinality(fn_result.context_indices) <= target

\* C28 witness: next to a relevant position and its neighbours, the sampling
\* added a position
C28_Witness ==
    /\ Retrieved /\ ~fn_result.raised
    /\ fn_result.relevant_indices # {}
    /\ fn_result.near # {}
    /\ Sampled # {}

\* a direct add call whose vectors include one of a length other than d
AddOfOtherLength(entries, o, d) ==
    /\ StoreAdd(VectorsOf(entries), MetadatasOf(entries), o)
    /\ \E i \in 1..Len(entries) : entries[i].v.dim # d

\* C29: an add call that is given a vector whose length differs from the
\* dimension the store was configured with fails, and leaves the index
\* vectors and the metadata list, in memory and in the files, as they were.
C29_MismatchRejected ==
    [][\A entries \in SeqsUpTo(StoreEntries, MaxAdd), o \in SaveOutcomes :
          AddOfOtherLength(entries, o, vector_store.dim) =>
              /\ last'.raised
              /\ vector_store' = vector_store
              /\ files' = files]_vars

RetrieveEnds == fn_args.fn = "retrieve_relevant_chunks" /\ fn_result' # fn_result
AnswerEnds == fn_args.fn = "answer_query" /\ fn_result' # fn_result

\* C30: retrieve_relevant_chunks and answer_query change no pipeline state:
\* whether the call returns or fails, the index vectors, the index metadata,
\* the chunk list and the readiness flag are after the call what they were
\* before it.
C30_QueriesReadOnly ==
    [][(RetrieveEnds \/ AnswerEnds) =>
          /\ vector_store'.index = vector_store.index
          /\ vector_store'.meta = vector_store.meta
          /\ chunks' = chunks
          /\ is_ingested' = is_ingested]_vars

\* C30 witness: on a READY pipeline that holds chunks, an answer_query has
\* failed after its retrieval
C30_Witness ==
    /\ fn_args.fn = "answer_query" /\ fn_result # NoFn
    /\ is_ingested /\ Len(chunks) > 0
    /\ fn_result.outcome = "generation" /\ fn_result.retrieved

\* embed_text_chunks has returned or raised
EmbedEnded == e_pc \in {"returned", "returned_empty", "raised"}

\* remote calls a chunk of batch k is sent in at most
MaxCallsPerChunk(k) == IF Len(Batch(k)) = 1 THEN 2 ELSE max_retries + 1

\* no chunk was sent to the service more often than its batch allows
CallsBounded ==
    \A i \in 1..Len(e_calls) : e_calls[i] <= MaxCallsPerChunk(BatchOf(i))

\* a batch whose fallback has started does not start it again
FallbackOnce ==
    \A k \in Futures :
        (k \in DOMAIN fut' /\ fut[k].fallback /\ fut[k].phase # "sequential")
            => fut'[k].phase # "sequential"

\* C31: embed_text_chunks ends for every input and every failure pattern of
\* the service, a chunk of a batch of two or more chunks is sent to the
\* service at most 4 times and a chunk of a one-chunk batch at most 2 times,
\* and the sequential fallback of a batch runs at most once.
C31_TerminatesBounded ==
    /\ <>EmbedEnded
    /\ []CallsBounded
    /\ [][FallbackOnce]_vars

\* C31 witness: the call returned after a chunk of a batch of two or more
\* chunks was sent 4 times and a chunk of a one-chunk batch 2 times
C31_Witness ==
    /\ Returned
    /\ \E i \in 1..Len(e_calls) : Len(Batch(BatchOf(i))) >= 2 /\ e_calls[i] = 4
    /\ \E i \in 1..Len(e_calls) : Len(Batch(BatchOf(i))) = 1 /\ e_calls[i] = 2

\* the index holds one vector or more, all of them the zero vector
OnlyZeroVectors(vs) ==
    /\ ntotal(vs.index) > 0
    /\ \A i \in 1..ntotal(vs.index) : vs.index.vecs[i] = ZeroVector

\* C32: failures of the embedding service do not make ingestion fail: on a
\* pipeline of the default dimension 768, ingest_document with
\* clear_existing=True of a document that yields chunks, with no file write
\* failing, ends READY whichever remote embedding calls fail, those of the
\* verification probe included; when every call for a chunk fails the index
\* then holds only zero vectors.
C32_ServiceFailuresTolerated ==
    [][\A link \in Links, bs \in {1, default_batch_size}, probe_ok \in BOOLEAN :
          \A given \in {ChunksOf(link, "words", default_target_chunks)} :
          \A order \in BatchOrders(BatchCountOf(given, bs)),
             Z \in ZeroPatterns(Len(ValidatedOf(given))) :
             (/\ vector_store.dim = DefaultDim
              /\ IngestEmbedded(link, bs, TRUE, order, Z, "ok", probe_ok))
                 => /\ is_ingested'
                    /\ last'.outcome = "ok"
                    /\ Z # {} => OnlyZeroVectors(vector_store')]_vars

\* C32 witness: an ingestion with clear_existing=True ended READY with an
\* index of two zero vectors
C32_Witness ==
    /\ last.op = "ingest" /\ last.clear_existing /\ last.outcome = "ok"
    /\ is_ingested
    /\ vector_store.dim = DefaultDim
    /\ ntotal(vector_store.index) = 2
    /\ OnlyZeroVectors(vector_store)

IngestSizingEnded == fn_args.fn = "ingest_sizing" /\ fn_result # NoFn

\* C33: for every text length and every target_chunks, the chunk size
\* ingest_document hands to split_text lies in 500..2000, the overlap
\* max(100, chunk_size // 5) is smaller than the chunk size, and the advance
\* chunk_size - overlap of the word windows is at least 400, so never zero or
\* negative.
C33_SizingInRange ==
    IngestSizingEnded =>
        /\ fn_result.chunk_size \in 500..2000
        /\ fn_result.overlap = Max(100, fn_result.chunk_size \div 5)
        /\ fn_result.overlap < fn_result.chunk_size
        /\ fn_result.chunk_size - fn_result.overlap >= 400

\* C33 witness: a text shorter than 500 characters got the chunk size 500 and
\* the overlap 100: an advance of exactly 400
C33_Witness ==
    /\ IngestSizingEnded
    /\ fn_args.target_chunks > 0
    /\ fn_args.text_length < 500
    /\ fn_result.chunk_size = 500
    /\ fn_result.overlap = 100

\* RAGPipeline() has just returned
PipelineConstructed == last.op = "new" /\ ~last.raised

\* C34: a newly constructed pipeline is EMPTY: not ready, with an empty
\* chunk list and an index of zero vectors and zero metadata entries,
\* whatever earlier pipelines or stores have written to the files at the
\* default paths.
C34_NewPipelineEmpty ==
    PipelineConstructed =>
        /\ ~is_ingested
        /\ Len(chunks) = 0
        /\ ntotal(vector_store.index) = 0
        /\ Len(vector_store.meta) = 0

====
